---- MODULE Spec2Model ----
(***************************************************************************)
(* Ledger consistency engine of the Tshikota Ro Farana stokvel app.        *)
(*                                                                         *)
(* The repository holds three code paths that mutate the same ledger:      *)
(*   - the dual-store Database module (Firestore + Realtime DB),           *)
(*     src/unnamed/part_006                      -> SpecDual               *)
(*   - the Firestore-only Database module, src/js/submit-pop.js            *)
(*     (recalculateMemberStats in SpecSingleSeq) -> SpecSingle,            *)
(*                                                  SpecSingleSeq          *)
(*   - the Admin dashboard's own approve/reject, src/unnamed/part_008,     *)
(*     which writes Firestore directly           -> SpecAdmin              *)
(*                                                                         *)
(* Every async function is cut at its awaits: one action per store call    *)
(* (a Firestore read, a batch commit, a Realtime DB transaction group).    *)
(* A store call may throw; the handler's catch rethrows, so the operation  *)
(* ends there with result "failed" and the writes made so far remain.      *)
(*                                                                         *)
(* SpecDual and SpecSingle run two callers concurrently with no store      *)
(* failure; SpecSingleSeq and SpecAdmin run one caller at a time and let   *)
(* up to MaxFail store calls throw.                                        *)
(***************************************************************************)
EXTENDS Integers, FiniteSets, Sequences, TLC

\* ------------------------------------------------------------------ bounds
MaxSubs == 2      \* submission documents that can be created
MaxFail == 1      \* store calls that throw in one behaviour
MaxDecisions == 2 \* approve / reject calls accepted in one behaviour where the
                  \* code itself sets no limit (Firestore-only module, Admin)

\* ------------------------------------------------------------ configuration
\* the APP_SETTINGS object firebase-config.js defines (the keys the ledger reads)
APP_SETTINGS ==
    [minimumDeposit |-> 300, lateFineAmount |-> 50, paymentDueDay |-> 7,
     interestEligibilityMin |-> 10000]

\* APP_SETTINGS.key: a key the object does not define reads as undefined
Defined(key) == key \in DOMAIN APP_SETTINGS

\* APP_SETTINGS?.key || fallback
SettingOr(key, fallback) ==
    IF Defined(key) /\ APP_SETTINGS[key] # 0 THEN APP_SETTINGS[key] ELSE fallback

\* new Date().getFullYear() at the time of an approval
CurrentYear == 2026

\* parseInt of a token with no leading digit
NaN == -1

\* ------------------------------------------------------------------ domains
Procs == {1, 2}
One == {1}
MaxMembers == 3   \* documents registerMember and addMember can add
RegIds == 1..MaxMembers
Members == {"m1", "m2"}
NoMember == "none"
SubIds == 1..MaxSubs
Phones == {"0711", "0722", "0799"}
SomePhones == {"0711", "0799"}
LinkedPhones == {"0711"}
\* amounts as typed, character by character
Amounts == {<<"3", "0", "0">>, <<"9", "8", "0", "0">>}
AnyAmounts ==
    {<<"3", "0", "0">>, <<"5", "0">>, <<"0">>, <<"-", "5", "0">>, <<"a", "b", "c">>, <<>>}
Days == {5, 10}
LateDays == {10}
\* a payment-period label is a string, kept as its sequence of characters
December2024 == <<"D","e","c","e","m","b","e","r"," ","2","0","2","4">>
Labels == {December2024}

\* labels that are not "<month> <year>": a year with no space before it, no year
Slash2024 == <<"1","2","/","2","0","2","4">>
December == <<"D","e","c","e","m","b","e","r">>
PoolLabels == {December2024, Slash2024, December}

\* members are registered with these phones (registerMember / addMember)
PhoneOf(m) == IF m = "m1" THEN "0711" ELSE "0722"

VARIABLES
    submissions,   \* Firestore collection 'submissions': id -> document
    members,       \* Firestore collection 'members': id -> aggregates
    interestPool,  \* Firestore collection 'interestPool': year -> totalFines
    rtTotals,      \* Realtime DB stokvel/totals
    rtMembers,     \* Realtime DB stokvel/members/{id}
    rtPool,        \* Realtime DB stokvel/interestPool/{year}/totalFines
    pendingSubmissions, \* Admin dashboard: cached list of pending documents
    pc,            \* per caller: the await it is suspended at
    loc,           \* per caller: the handler's local variables
    last,          \* the call that returned or threw in the step just taken
    oks,           \* per submission: approve / reject calls that returned normally
    faults,        \* store calls that may still throw
    bankInterest,  \* Firestore collection 'interestPool': year -> bankInterest
    sideEffects,   \* the environment of the side effects: does the audit-log
                   \* write succeed, is the SMS module loaded and does it send
    otpCodes,      \* Firestore collection 'otpCodes': formatted phone -> document
    otpHistory,    \* per formatted phone, since the code was stored: the code
                   \* a verifyOTP call accepted, the number of calls with a
                   \* wrong code refused before any was accepted
    idInput,       \* the string given to the ID validators
    idResult,      \* what each validator returned for it
    registry,      \* Firestore collection 'members': the documents added by
                   \* registerMember and addMember, with their identity fields
    flow,          \* the forgot-password modal of auth.js: what it displays, its
                   \* inputs, resetPhone, resetMemberId and the handlers running
    session,       \* browser storage: the member and admin sessions, and the clock
    upload         \* Storage.uploadProof: its file and the locals of its loop

fsVars == <<submissions, members, interestPool>>
rtVars == <<rtTotals, rtMembers, rtPool>>
\* the state no ledger operation (submit, approve, reject, recalculate) writes
otpVars == <<otpCodes, otpHistory>>
idVars == <<idInput, idResult>>
clientVars == <<flow, session, upload>>
otherVars == <<bankInterest, registry, sideEffects, otpVars, idVars, clientVars>>
vars == <<submissions, members, interestPool, rtTotals, rtMembers, rtPool,
          pendingSubmissions, pc, loc, last, oks, faults, bankInterest, registry,
          sideEffects, otpCodes, otpHistory, idInput, idResult, flow, session,
          upload>>

\* ------------------------------------------------------------ record shapes
NoDoc ==
    [exists |-> FALSE, status |-> "none", amount |-> 0, fineAmount |-> 0,
     isLate |-> FALSE, memberId |-> NoMember, paymentMonth |-> <<>>,
     paymentDate |-> 0]

\* the financial summary a member document is created with
NewMember ==
    [totalSavings |-> 0, totalFines |-> 0, submissionCount |-> 0,
     verifiedCount |-> 0, pendingCount |-> 0, rejectedCount |-> 0,
     qualifiesForInterest |-> FALSE, totalSaved |-> 0, status |-> "active"]

\* the entry registerMember writes to stokvel/members/{id}
NewRtMember ==
    [totalSavings |-> 0, totalFines |-> 0, submissionCount |-> 0,
     verifiedCount |-> 0, pendingCount |-> 0, qualifiesForInterest |-> FALSE]

\* initializeRealtimeDB's totals
NewRtTotals ==
    [totalSavings |-> 0, totalFines |-> 0, pendingSubmissions |-> 0,
     approvedSubmissions |-> 0, rejectedSubmissions |-> 0,
     totalSubmissions |-> 0]

\* the distribution calculateInterestDistribution returns: the pool, the share
\* and the share given to each qualifying member
NoDistribution ==
    [year |-> 0, totalPool |-> 0, perMemberAmount |-> 0, shareAmount |-> [m \in {} |-> 0]]

\* what recalculateMemberStats returns
NoStats ==
    [totalSavings |-> 0, totalFines |-> 0, submissionCount |-> 0,
     verifiedCount |-> 0, pendingCount |-> 0, rejectedCount |-> 0,
     qualifiesForInterest |-> FALSE]

\* the memberData of a registration: phone as typed, idNumber
NoData == [phone |-> <<>>, idNumber |-> "undefined"]

\* a document of the registry that has not been added
NoRecord ==
    [exists |-> FALSE, phone |-> <<>>, idNumber |-> "undefined",
     memberRef |-> <<>>, registrationSource |-> "none"]

NoLoc ==
    [sid |-> 0, memberId |-> NoMember, sub |-> NoDoc, member |-> NewMember,
     hasMember |-> FALSE, stats |-> NoStats, again |-> FALSE, prev |-> NoStats,
     todo |-> <<>>, count |-> 0, year |-> 0, pool |-> <<0, 0>>, data |-> NoData,
     key |-> <<>>, otp |-> "", wrong |-> FALSE, snapshot |-> <<>>,
     stored |-> 0, totalSaved |-> 0, expired |-> FALSE]

NoLast ==
    [op |-> "none", sid |-> 0, memberId |-> NoMember, res |-> "none",
     stats |-> NoStats, was |-> "none", member |-> NewMember, again |-> FALSE,
     prev |-> NoStats, count |-> 0, distribution |-> NoDistribution,
     key |-> <<>>, otp |-> "", amount |-> 0, stored |-> 0, totalSaved |-> 0,
     expired |-> FALSE]

\* ------------------------------------------------------------ pure helpers
Max(a, b) == IF a >= b THEN a ELSE b

Digits == {"0", "1", "2", "3", "4", "5", "6", "7", "8", "9"}

DigitVal(c) ==
    CASE c = "0" -> 0 [] c = "1" -> 1 [] c = "2" -> 2 [] c = "3" -> 3
      [] c = "4" -> 4 [] c = "5" -> 5 [] c = "6" -> 6 [] c = "7" -> 7
      [] c = "8" -> 8 [] c = "9" -> 9

\* parseInt(str): the value of the leading run of digits, NaN when there is none
RECURSIVE LeadingDigits(_, _)
LeadingDigits(str, acc) ==
    IF str = <<>> \/ Head(str) \notin Digits THEN acc
    ELSE LeadingDigits(Tail(str), acc * 10 + DigitVal(Head(str)))

parseInt(str) ==
    IF str = <<>> \/ Head(str) \notin Digits THEN NaN ELSE LeadingDigits(str, 0)

isNaN(x) == x = NaN

\* parseFloat(str) on strings without a fraction: a sign, then the leading digits
parseFloat(str) ==
    IF str # <<>> /\ Head(str) = "-"
    THEN IF isNaN(parseInt(Tail(str))) THEN NaN ELSE 0 - parseInt(Tail(str))
    ELSE parseInt(str)

\* Number(str) on strings without a fraction: 0 for the empty string, NaN
\* unless every character after the sign is a digit
Number(str) ==
    LET body == IF str # <<>> /\ Head(str) = "-" THEN Tail(str) ELSE str
    IN IF str = <<>> THEN 0
       ELSE IF body = <<>> \/ \E i \in 1..Len(body) : body[i] \notin Digits THEN NaN
       ELSE parseFloat(str)

\* str.split(' '): the pieces between single spaces
RECURSIVE split(_, _, _)
split(str, cur, acc) ==
    IF str = <<>> THEN Append(acc, cur)
    ELSE IF Head(str) = " " THEN split(Tail(str), <<>>, Append(acc, cur))
    ELSE split(Tail(str), Append(cur, Head(str)), acc)

\* paymentMonth.match(/\d{4}/): the start of the first run of four digits, 0 if none
MatchAt(str) ==
    LET hits == {i \in 1..(Len(str) - 3) :
                    \A j \in 0..3 : str[i + j] \in Digits}
    IN IF hits = {} THEN 0 ELSE CHOOSE i \in hits : \A k \in hits : i <= k

\* Database.extractYearFromMonth of the dual-store module
extractYearFromMonth(paymentMonth) ==
    IF paymentMonth = <<>> THEN CurrentYear
    ELSE LET i == MatchAt(paymentMonth)
         IN IF i = 0 THEN CurrentYear
            ELSE parseInt(SubSeq(paymentMonth, i, i + 3))

\* the year the Firestore-only approveSubmission routes a fine to
paymentYearOf(paymentMonth) ==
    LET monthParts == split(paymentMonth, <<>>, <<>>)
    IN IF Len(monthParts) > 1 THEN parseInt(monthParts[2]) ELSE CurrentYear

Years ==
    {extractYearFromMonth(l) : l \in PoolLabels}
        \cup {paymentYearOf(l) : l \in PoolLabels} \cup {CurrentYear}

\* the stores after registration of the members, no call running
\* ------------------------------------------------------------ phone formats
\* phones as typed, character by character
OtpPhones ==
    {<<"0", "7", "1", "1", "2", "3", "4", "5", "6", "7">>,
     <<"0", "7", "1", " ", "1", "2", "3", " ", "4", "5", "6", "7">>}

Prefix(s, n) == SubSeq(s, 1, n)

\* part_001 formatPhoneNumber: 27XXXXXXXXX, or null (the empty sequence)
formatPhoneNumber(phone) ==
    LET cleaned == SelectSeq(phone, LAMBDA c : c \in Digits)
    IN IF phone = <<>> THEN <<>>
       ELSE IF Len(cleaned) = 11 /\ Prefix(cleaned, 2) = <<"2", "7">> THEN cleaned
       ELSE IF Len(cleaned) = 10 /\ Prefix(cleaned, 1) = <<"0">>
       THEN <<"2", "7">> \o Tail(cleaned)
       ELSE IF Len(cleaned) = 9 /\ Prefix(cleaned, 1) # <<"0">>
       THEN <<"2", "7">> \o cleaned
       ELSE <<>>

\* sms.js formatPhoneNumber: +27XXXXXXXXX
SmsJs_formatPhoneNumber(phone) ==
    LET kept == SelectSeq(phone, LAMBDA c : c \in Digits \cup {"+"})
        hasPlus == kept # <<>> /\ Head(kept) = "+"
        cleaned == IF hasPlus THEN Tail(kept) ELSE kept
    IN IF Len(cleaned) = 11 /\ Prefix(cleaned, 2) = <<"2", "7">> THEN <<"+">> \o cleaned
       ELSE IF Len(cleaned) = 10 /\ Prefix(cleaned, 1) = <<"0">>
       THEN <<"+", "2", "7">> \o Tail(cleaned)
       ELSE IF Len(cleaned) = 9 /\ Head(cleaned) \in {"6", "7", "8"}
       THEN <<"+", "2", "7">> \o cleaned
       ELSE IF hasPlus THEN <<"+">> \o cleaned
       ELSE <<"+", "2", "7">> \o cleaned

\* the document ids of collection 'otpCodes'
OtpKeys ==
    {formatPhoneNumber(phone) : phone \in OtpPhones}
        \cup {SmsJs_formatPhoneNumber(phone) : phone \in OtpPhones}

\* the codes generateOTP draws
OtpCodes == {"482913", "057766"}

NoOtp == [exists |-> FALSE, otp |-> "", used |-> FALSE, expired |-> FALSE, attempts |-> 0]
\* what happened to the phone since its code was issued: the code verified, the
\* wrong calls refused, the code issued, the code it replaced and the number of
\* wrong codes part_001's verifyOTP compared with the stored one
NoHistory ==
    [verified |-> "", wrong |-> 0, issued |-> "", replaced |-> "", compared |-> 0]

NoResult == [Utils |-> "none", Registration |-> "none", SAFinance |-> "none"]

InitStores ==
    /\ submissions = [s \in SubIds |-> NoDoc]
    /\ members = [m \in Members |-> NewMember]
    /\ interestPool = [y \in Years |-> 0]
    /\ rtTotals = NewRtTotals
    /\ rtMembers = [m \in Members |-> NewRtMember]
    /\ rtPool = [y \in Years |-> 0]
    /\ pendingSubmissions = [s \in SubIds |-> NoDoc]
    /\ pc = [p \in Procs |-> "idle"]
    /\ loc = [p \in Procs |-> NoLoc]
    /\ last = NoLast
    /\ oks = [s \in SubIds |-> [approve |-> 0, reject |-> 0]]
    /\ bankInterest = [y \in Years |-> 0]
    /\ registry = [i \in RegIds |-> NoRecord]
    /\ otpCodes = [k \in OtpKeys |-> NoOtp]
    /\ otpHistory = [k \in OtpKeys |-> NoHistory]
    /\ idResult = NoResult

\* the outcomes of auditLogs.add and of the SMS dispatch
SideEffects == [audit : {"written", "fails"}, sms : {"sent", "fails", "absent"}]
Succeed == [audit |-> "written", sms |-> "sent"]

\* the forgot-password modal as created: step 1 displayed, nothing typed, no
\* handler running; what the flow has verified and the calls of updatePassword
\* no code: none issued for the phone, or none typed
NoCode == [sentTo |-> ""]

NoFlow ==
    [step1 |-> TRUE, step2 |-> FALSE, step3 |-> FALSE,
     phoneInput |-> "", resetPhone |-> "", resetMemberId |-> "",
     sendOTPBtn |-> "enabled", verifyOTPBtn |-> "enabled",
     resetPasswordBtn |-> "enabled",
     handleSendOTP |-> [via \in {"button", "link"} |-> [at |-> "idle", phone |-> ""]],
     handleVerifyOTP |-> [at |-> "idle", phone |-> "", otp |-> NoCode],
     handleResetPassword |-> [at |-> "idle", memberId |-> ""],
     codes |-> [phone \in Phones |-> NoCode],
     verified |-> {}, updatePassword |-> {}]

\* Session duration constants (in milliseconds)
ADMIN_SESSION_DURATION == 24 * 60 * 60 * 1000
MEMBER_SESSION_DURATION == 30 * 60 * 1000

\* Utils.storage.get of a key that holds nothing
NoSession == [present |-> FALSE, timestamp |-> 0]

\* the browser before any login: the clock (Date.now(), counted from the start),
\* the two sessions in storage, and what the last call of Auth returned
LoggedOut ==
    [now |-> 0, ticks |-> 0,
     storage |-> [member |-> NoSession, admin |-> NoSession],
     returned |-> [call |-> "none", session |-> NoSession, valid |-> FALSE,
                   expired |-> FALSE]]
\* Storage configuration
MAX_FILE_SIZE == 15 * 1024 * 1024
MAX_BASE64_SIZE == 800 * 1024
TARGET_WIDTH == 1200
MIN_WIDTH == 400
maxAttempts == 5

NoFile == [size |-> 0, type |-> "", extension |-> ""]

\* JPEG quality in hundredths; above: the double lies just above that decimal
\* (0.45 - 0.15 is 0.30000000000000004)
Quality(hundredths) == [hundredths |-> hundredths, above |-> FALSE]

NoOutcome == [kind |-> "none", length |-> 0]

\* no upload in progress and none made: the locals of uploadProof, the number
\* of compressImage calls of the current or last call, and its outcome
NoUpload ==
    [at |-> "idle", file |-> NoFile, quality |-> Quality(80),
     maxWidth |-> TARGET_WIDTH, attempt |-> 0, compressions |-> 0,
     outcome |-> NoOutcome]

\* the browser side at rest
ClientIdle == flow = NoFlow /\ session = LoggedOut /\ upload = NoUpload

\* no store call throws
Init ==
    InitStores /\ faults = 0 /\ sideEffects = Succeed /\ idInput = <<>> /\ ClientIdle

\* up to MaxFail store calls throw
InitSeq ==
    /\ InitStores /\ faults = MaxFail /\ sideEffects = Succeed /\ idInput = <<>>
    /\ ClientIdle

\* up to MaxFail store calls throw, the side effects succeed or not
InitEffects ==
    /\ InitStores /\ faults = MaxFail /\ sideEffects \in SideEffects /\ idInput = <<>>
    /\ ClientIdle

\* getMemberByPhone: the member document whose phone equals the argument
getMemberByPhone(phone) ==
    IF \E m \in Members : PhoneOf(m) = phone
    THEN CHOOSE m \in Members : PhoneOf(m) = phone
    ELSE NoMember

\* the first free document id (collection.add)
FreeIds == {s \in SubIds : ~submissions[s].exists}
NextId == CHOOSE s \in FreeIds : \A t \in FreeIds : s <= t

\* ======================================================================
\* Dual-store Database module (src/unnamed/part_006)
\* ======================================================================

\* paymentDate.getDate() > APP_SETTINGS.paymentDeadlineDay
\* (a comparison with undefined is false)
isLateDual(day) ==
    IF Defined("paymentDeadlineDay") THEN day > APP_SETTINGS["paymentDeadlineDay"]
    ELSE FALSE

\* isLate ? APP_SETTINGS.lateFee : 0   (undefined || 0 when the fee is later read)
fineAmountDual(day) ==
    IF isLateDual(day) /\ Defined("lateFee") THEN APP_SETTINGS["lateFee"] ELSE 0

\* isNaN(amount) || amount < APP_SETTINGS.minimumContribution
amountRejectedDual(amount) ==
    \/ isNaN(amount)
    \/ IF Defined("minimumContribution")
       THEN amount < APP_SETTINGS["minimumContribution"]
       ELSE FALSE

\* newTotalSavings >= APP_SETTINGS.interestEligibilityMin
qualifiesDual(totalSavings) == totalSavings >= APP_SETTINGS["interestEligibilityMin"]

\* ------------------------------------------------------- call bookkeeping
\* a caller enters a handler; of two idle callers the first takes the call
Begin(p) ==
    /\ pc[p] = "idle"
    /\ \A q \in Procs : q < p => pc[q] # "idle"

\* the handler returns (res = "ok") or throws, with the locals l: they are gone
\* from the caller; the record of the call keeps the status the submission was
\* read with, the statistics computed and the member record given
FinishWith(p, op, sid, mid, res, l, member) ==
    /\ pc' = [pc EXCEPT ![p] = "idle"]
    /\ loc' = [loc EXCEPT ![p] = NoLoc]
    /\ last' = [NoLast EXCEPT !.op = op, !.sid = sid, !.memberId = mid,
                              !.res = res, !.stats = l.stats,
                              !.was = l.sub.status, !.member = member,
                              !.again = l.again, !.prev = l.prev,
                              !.count = l.count, !.amount = l.sub.amount,
                              !.stored = l.stored, !.totalSaved = l.totalSaved]
    /\ oks' = IF res = "ok" /\ op \in {"approve", "reject"}
              THEN [oks EXCEPT ![sid][op] = @ + 1]
              ELSE oks

Finish(p, op, sid, mid, res) == FinishWith(p, op, sid, mid, res, loc[p], NewMember)

\* the handler goes on to its next await after a store call
Goto(p, label, newloc) ==
    /\ pc' = [pc EXCEPT ![p] = label]
    /\ loc' = [loc EXCEPT ![p] = newloc]
    /\ last' = NoLast
    /\ UNCHANGED oks

\* a rethrown audit-log failure
createAuditLogRethrows(audit) == IF audit = "fails" THEN "failed" ELSE "ok"

\* createAuditLog / Auth.logAdminAction: try { auditLogs.add } catch { warn }
createAuditLog(audit) == "ok"

\* sendSMSNonBlocking, and try { await SMS.send... } catch { warn }: a missing
\* module, a failed send and a sent message leave the caller alike
sendSMS(sms) == "ok"

\* the handler after its last store call: the audit log, then the SMS
Logged ==
    IF createAuditLog(sideEffects.audit) = "ok" THEN sendSMS(sideEffects.sms)
    ELSE "failed"

\* a store call throws
Throws ==
    /\ faults > 0
    /\ faults' = faults - 1

\* ---------------------------------------------------------------- submitPOP
\* getMemberByPhone, the amount check and firestore.collection('submissions').add
submitPOP_add(p, phones, days, amounts) ==
    /\ Begin(p)
    /\ FreeIds # {}
    /\ \E phone \in phones, typed \in amounts, day \in days, pm \in Labels :
         LET member == getMemberByPhone(phone)
             sid == NextId
             amount == parseFloat(typed)
             doc == [exists |-> TRUE, status |-> "pending", amount |-> amount,
                     fineAmount |-> fineAmountDual(day), isLate |-> isLateDual(day),
                     memberId |-> member, paymentMonth |-> pm,
                     paymentDate |-> day]
         IN IF amountRejectedDual(amount)
            THEN /\ FinishWith(p, "submit", 0, member, "invalid",
                                [NoLoc EXCEPT !.sub = doc], NewMember)
                 /\ UNCHANGED <<submissions, faults>>
            ELSE \/ /\ submissions' = [submissions EXCEPT ![sid] = doc]
                    /\ Goto(p, "sp_member",
                            [NoLoc EXCEPT !.sid = sid, !.memberId = member, !.sub = doc])
                    /\ UNCHANGED faults
                 \/ /\ Throws
                    /\ Finish(p, "submit", 0, member, "failed")
                    /\ UNCHANGED submissions
    /\ UNCHANGED <<members, interestPool, rtVars, pendingSubmissions, otherVars>>

\* firestore members/{id}.update: submissionCount and pendingCount increment(1)
submitPOP_member(p) ==
    /\ pc[p] = "sp_member"
    /\ LET m == loc[p].memberId
       IN \/ /\ members' = IF m = NoMember THEN members
                            ELSE [members EXCEPT
                                    ![m].submissionCount = @ + 1,
                                    ![m].pendingCount = @ + 1]
             /\ Goto(p, "sp_rtTotals", loc[p])
             /\ UNCHANGED faults
          \/ /\ m # NoMember
             /\ Throws
             /\ Finish(p, "submit", loc[p].sid, m, "failed")
             /\ UNCHANGED members
    /\ UNCHANGED <<submissions, interestPool, rtVars, pendingSubmissions, otherVars>>

\* the first k of: pendingSubmissions + 1, totalSubmissions + 1
SubmitTotals(t, k) ==
    [t EXCEPT !.pendingSubmissions = IF k >= 1 THEN @ + 1 ELSE @,
              !.totalSubmissions = IF k >= 2 THEN @ + 1 ELSE @]

\* the Realtime DB transactions on stokvel/totals; one of them may throw
submitPOP_rtTotals(p) ==
    /\ pc[p] = "sp_rtTotals"
    /\ \E k \in 0..2 :
         /\ rtTotals' = SubmitTotals(rtTotals, k)
         /\ IF k = 2
            THEN /\ Goto(p, "sp_rtMember", loc[p])
                 /\ UNCHANGED faults
            ELSE /\ Throws
                 /\ Finish(p, "submit", loc[p].sid, loc[p].memberId, "failed")
    /\ UNCHANGED <<fsVars, rtMembers, rtPool, pendingSubmissions, otherVars>>

\* the first k of: submissionCount + 1, pendingCount + 1 on stokvel/members/{id}
SubmitRtMember(r, k) ==
    [r EXCEPT !.submissionCount = IF k >= 1 THEN @ + 1 ELSE @,
              !.pendingCount = IF k >= 2 THEN @ + 1 ELSE @]

\* the member's Realtime DB counters, then the audit log (never throws) and the
\* SMS (fire and forget): the reference is returned
submitPOP_rtMember(p) ==
    /\ pc[p] = "sp_rtMember"
    /\ LET m == loc[p].memberId
       IN IF m = NoMember
          THEN /\ Finish(p, "submit", loc[p].sid, m, Logged)
               /\ UNCHANGED <<rtMembers, faults>>
          ELSE \E k \in 0..2 :
                 /\ rtMembers' = [rtMembers EXCEPT ![m] = SubmitRtMember(@, k)]
                 /\ IF k = 2
                    THEN /\ Finish(p, "submit", loc[p].sid, m, Logged)
                         /\ UNCHANGED faults
                    ELSE /\ Throws
                         /\ Finish(p, "submit", loc[p].sid, m, "failed")
    /\ UNCHANGED <<fsVars, rtTotals, rtPool, pendingSubmissions, otherVars>>

\* ---------------------------------------------------------- approveSubmission
\* getSubmission and the two guards on its result
approveSubmission_getSubmission(p) ==
    /\ Begin(p)
    /\ \E sid \in SubIds :
         LET submission == submissions[sid]
         IN IF ~submission.exists
            THEN Finish(p, "approve", sid, NoMember, "notFound")
            ELSE IF submission.status # "pending"
            THEN Finish(p, "approve", sid, submission.memberId, "alreadyProcessed")
            ELSE Goto(p, IF submission.memberId # NoMember THEN "ap_getMember"
                         ELSE "ap_commit",
                      [NoLoc EXCEPT !.sid = sid, !.sub = submission,
                                    !.memberId = submission.memberId])
    /\ UNCHANGED <<fsVars, rtVars, pendingSubmissions, otherVars, faults>>

\* member = await this.getMember(submission.memberId)
approveSubmission_getMember(p) ==
    /\ pc[p] = "ap_getMember"
    /\ Goto(p, "ap_commit",
            [loc[p] EXCEPT !.member = members[loc[p].memberId], !.hasMember = TRUE])
    /\ UNCHANGED <<fsVars, rtVars, pendingSubmissions, otherVars, faults>>

\* the member fields the approval batch writes, from the member read before
ApprovedMember(cur, member, amount, fineAmount) ==
    [cur EXCEPT !.totalSavings = member.totalSavings + amount,
                !.totalFines = member.totalFines + fineAmount,
                !.verifiedCount = @ + 1,
                !.pendingCount = @ - 1,
                !.qualifiesForInterest = qualifiesDual(member.totalSavings + amount)]

\* batch.commit(): submission, member and interest pool in one atomic write
approveSubmission_commit(p) ==
    /\ pc[p] = "ap_commit"
    /\ LET l == loc[p]
           amount == l.sub.amount
           fineAmount == l.sub.fineAmount
           paymentYear == extractYearFromMonth(l.sub.paymentMonth)
       IN \/ /\ submissions' = [submissions EXCEPT ![l.sid].status = "verified"]
             /\ members' = IF l.hasMember
                            THEN [members EXCEPT ![l.memberId] =
                                    ApprovedMember(@, l.member, amount, fineAmount)]
                            ELSE members
             /\ interestPool' = IF fineAmount > 0
                                 THEN [interestPool EXCEPT ![paymentYear] = @ + fineAmount]
                                 ELSE interestPool
             /\ Goto(p, "ap_rtTotals",
                     [l EXCEPT !.stored = IF l.hasMember
                                          THEN members'[l.memberId].totalSavings
                                          ELSE 0])
             /\ UNCHANGED faults
          \/ /\ Throws
             /\ Finish(p, "approve", l.sid, l.memberId, "failed")
             /\ UNCHANGED fsVars
    /\ UNCHANGED <<rtVars, pendingSubmissions, otherVars>>

\* the first k of: totalSavings + amount, totalFines + fineAmount,
\* pendingSubmissions max(val - 1, 0), approvedSubmissions + 1
ApproveTotals(t, amount, fineAmount, k) ==
    [t EXCEPT !.totalSavings = IF k >= 1 THEN @ + amount ELSE @,
              !.totalFines = IF k >= 2 THEN @ + fineAmount ELSE @,
              !.pendingSubmissions = IF k >= 3 THEN Max(@ - 1, 0) ELSE @,
              !.approvedSubmissions = IF k >= 4 THEN @ + 1 ELSE @]

approveSubmission_rtTotals(p) ==
    /\ pc[p] = "ap_rtTotals"
    /\ LET l == loc[p]
       IN \E k \in 0..4 :
            /\ rtTotals' = ApproveTotals(rtTotals, l.sub.amount, l.sub.fineAmount, k)
            /\ IF k = 4
               THEN /\ Goto(p, "ap_rtMember", l)
                    /\ UNCHANGED faults
               ELSE /\ Throws
                    /\ Finish(p, "approve", l.sid, l.memberId, "failed")
    /\ UNCHANGED <<fsVars, rtMembers, rtPool, pendingSubmissions, otherVars>>

\* a memberRtRef.update that leaves pendingCount out
ApprovedRtMemberKeepsPending(cur, member, amount, fineAmount) ==
    [cur EXCEPT !.totalSavings = member.totalSavings + amount,
                !.totalFines = member.totalFines + fineAmount,
                !.verifiedCount = member.verifiedCount + 1,
                !.qualifiesForInterest = qualifiesDual(member.totalSavings + amount)]

\* memberRtRef.update({...}): absolute values from the member read before
ApprovedRtMember(cur, member, amount, fineAmount) ==
    [cur EXCEPT !.totalSavings = member.totalSavings + amount,
                !.totalFines = member.totalFines + fineAmount,
                !.verifiedCount = member.verifiedCount + 1,
                !.pendingCount = Max(member.pendingCount - 1, 0),
                !.qualifiesForInterest = qualifiesDual(member.totalSavings + amount)]

approveSubmission_rtMember(p) ==
    /\ pc[p] = "ap_rtMember"
    /\ LET l == loc[p]
       IN \/ /\ rtMembers' = IF l.hasMember
                              THEN [rtMembers EXCEPT ![l.memberId] =
                                      ApprovedRtMember(@, l.member, l.sub.amount,
                                                       l.sub.fineAmount)]
                              ELSE rtMembers
             /\ Goto(p, "ap_rtPool", l)
             /\ UNCHANGED faults
          \/ /\ l.hasMember
             /\ Throws
             /\ Finish(p, "approve", l.sid, l.memberId, "failed")
             /\ UNCHANGED rtMembers
    /\ UNCHANGED <<fsVars, rtTotals, rtPool, pendingSubmissions, otherVars>>

\* member ? (member.totalSavings || 0) + amount : amount
updatedMemberSavings(l) ==
    IF l.hasMember THEN l.member.totalSavings + l.sub.amount ELSE l.sub.amount

\* stokvel/interestPool/{paymentYear}/totalFines + fineAmount, the monthly
\* statistics (either may throw), then the audit log and the SMS (neither throws)
approveSubmission_rtPool(p) ==
    /\ pc[p] = "ap_rtPool"
    /\ LET l == loc[p]
           fineAmount == l.sub.fineAmount
           paymentYear == extractYearFromMonth(l.sub.paymentMonth)
           pool == IF fineAmount > 0
                   THEN [rtPool EXCEPT ![paymentYear] = @ + fineAmount]
                   ELSE rtPool
       IN \/ /\ rtPool' = pool
             /\ FinishWith(p, "approve", l.sid, l.memberId, Logged,
                           [l EXCEPT !.totalSaved = updatedMemberSavings(l)], NewMember)
             /\ UNCHANGED faults
          \/ /\ rtPool' \in {rtPool, pool}
             /\ Throws
             /\ Finish(p, "approve", l.sid, l.memberId, "failed")
    /\ UNCHANGED <<fsVars, rtTotals, rtMembers, pendingSubmissions, otherVars>>

\* ----------------------------------------------------------- rejectSubmission
rejectSubmission_getSubmission(p) ==
    /\ Begin(p)
    /\ \E sid \in SubIds :
         LET submission == submissions[sid]
         IN IF ~submission.exists
            THEN Finish(p, "reject", sid, NoMember, "notFound")
            ELSE IF submission.status # "pending"
            THEN Finish(p, "reject", sid, submission.memberId, "alreadyProcessed")
            ELSE Goto(p, "rj_commit",
                      [NoLoc EXCEPT !.sid = sid, !.sub = submission,
                                    !.memberId = submission.memberId])
    /\ UNCHANGED <<fsVars, rtVars, pendingSubmissions, otherVars, faults>>

\* the member fields the rejection batch writes
RejectedMember(cur) ==
    [cur EXCEPT !.pendingCount = @ - 1, !.rejectedCount = @ + 1]

rejectSubmission_commit(p) ==
    /\ pc[p] = "rj_commit"
    /\ LET l == loc[p]
       IN \/ /\ submissions' = [submissions EXCEPT ![l.sid].status = "rejected"]
             /\ members' = IF l.memberId # NoMember
                            THEN [members EXCEPT ![l.memberId] = RejectedMember(@)]
                            ELSE members
             /\ Goto(p, "rj_rtTotals", l)
             /\ UNCHANGED faults
          \/ /\ Throws
             /\ Finish(p, "reject", l.sid, l.memberId, "failed")
             /\ UNCHANGED <<submissions, members>>
    /\ UNCHANGED <<interestPool, rtVars, pendingSubmissions, otherVars>>

\* the first k of: pendingSubmissions max(val - 1, 0), rejectedSubmissions + 1
RejectTotals(t, k) ==
    [t EXCEPT !.pendingSubmissions = IF k >= 1 THEN Max(@ - 1, 0) ELSE @,
              !.rejectedSubmissions = IF k >= 2 THEN @ + 1 ELSE @]

rejectSubmission_rtTotals(p) ==
    /\ pc[p] = "rj_rtTotals"
    /\ LET l == loc[p]
       IN \E k \in 0..2 :
            /\ rtTotals' = RejectTotals(rtTotals, k)
            /\ IF k = 2
               THEN /\ Goto(p, "rj_rtMember", l)
                    /\ UNCHANGED faults
               ELSE /\ Throws
                    /\ Finish(p, "reject", l.sid, l.memberId, "failed")
    /\ UNCHANGED <<fsVars, rtMembers, rtPool, pendingSubmissions, otherVars>>

\* stokvel/members/{id}/pendingCount max(val - 1, 0), then audit log and SMS
rejectSubmission_rtMember(p) ==
    /\ pc[p] = "rj_rtMember"
    /\ LET l == loc[p]
       IN \/ /\ rtMembers' = IF l.memberId # NoMember
                              THEN [rtMembers EXCEPT
                                      ![l.memberId].pendingCount = Max(@ - 1, 0)]
                              ELSE rtMembers
             /\ Finish(p, "reject", l.sid, l.memberId, Logged)
             /\ UNCHANGED faults
          \/ /\ l.memberId # NoMember
             /\ Throws
             /\ Finish(p, "reject", l.sid, l.memberId, "failed")
             /\ UNCHANGED rtMembers
    /\ UNCHANGED <<fsVars, rtTotals, rtPool, pendingSubmissions, otherVars>>

NextDual ==
    \E p \in Procs :
        \/ submitPOP_add(p, SomePhones, LateDays, Amounts)
        \/ submitPOP_member(p)
        \/ submitPOP_rtTotals(p)
        \/ submitPOP_rtMember(p)
        \/ approveSubmission_getSubmission(p)
        \/ approveSubmission_getMember(p)
        \/ approveSubmission_commit(p)
        \/ approveSubmission_rtTotals(p)
        \/ approveSubmission_rtMember(p)
        \/ approveSubmission_rtPool(p)
        \/ rejectSubmission_getSubmission(p)
        \/ rejectSubmission_commit(p)
        \/ rejectSubmission_rtTotals(p)
        \/ rejectSubmission_rtMember(p)

SpecDual == Init /\ [][NextDual]_vars

\* the dual-store module with its calls made one at a time
NextDualSeq ==
    \E p \in One :
        \/ submitPOP_add(p, SomePhones, LateDays, Amounts)
        \/ submitPOP_member(p)
        \/ submitPOP_rtTotals(p)
        \/ submitPOP_rtMember(p)
        \/ approveSubmission_getSubmission(p)
        \/ approveSubmission_getMember(p)
        \/ approveSubmission_commit(p)
        \/ approveSubmission_rtTotals(p)
        \/ approveSubmission_rtMember(p)
        \/ approveSubmission_rtPool(p)
        \/ rejectSubmission_getSubmission(p)
        \/ rejectSubmission_commit(p)
        \/ rejectSubmission_rtTotals(p)
        \/ rejectSubmission_rtMember(p)

SpecDualSeq == Init /\ [][NextDualSeq]_vars

\* submissions of the dual-store module alone, for payments dated before and
\* after the deadline day
NextLate ==
    \E p \in One :
        \/ submitPOP_add(p, Phones, Days, Amounts)
        \/ submitPOP_member(p)
        \/ submitPOP_rtTotals(p)
        \/ submitPOP_rtMember(p)

SpecLate == Init /\ [][NextLate]_vars

\* ======================================================================
\* Firestore-only Database module (src/js/submit-pop.js)
\* ======================================================================

\* Utils.isPaymentLate: date.getDate() > (APP_SETTINGS?.lateDayOfMonth || 7)
isPaymentLate(day) == day > SettingOr("lateDayOfMonth", 7)

\* isLate ? (APP_SETTINGS?.lateFineAmount || 50) : 0
fineAmountOf(day) == IF isPaymentLate(day) THEN SettingOr("lateFineAmount", 50) ELSE 0

\* total >= (APP_SETTINGS?.interestEligibilityMin || 10000)
qualifiesForInterest(totalSavings) ==
    totalSavings >= SettingOr("interestEligibilityMin", 10000)

RECURSIVE Decisions(_)
\* the approvals and rejections completed so far on the submissions ids
Decisions(ids) ==
    IF ids = {} THEN 0
    ELSE LET s == CHOOSE x \in ids : TRUE
         IN oks[s].approve + oks[s].reject + Decisions(ids \ {s})

\* the callers inside an approval or a rejection that has no status guard
Deciding == {p \in Procs : pc[p] \in {"fap_getMember", "fap_commit", "fap_notify",
                                       "frj_commit", "frj_notify",
                                       "aap_member", "aap_reload", "arj_reload"}}

\* the code sets no limit on approving or rejecting a submission again
Undecided(sid) == Decisions(SubIds) + Cardinality(Deciding) < MaxDecisions

\* ---------------------------------------------------------------- submitPOP
\* getMemberByPhone and db.collection('submissions').add
FS_submitPOP_add(p, phones, labels, amounts) ==
    /\ Begin(p)
    /\ FreeIds # {}
    /\ \E phone \in phones, typed \in amounts, day \in Days, pm \in labels :
         LET member == getMemberByPhone(phone)
             sid == NextId
             amount == Number(typed)
             doc == [exists |-> TRUE, status |-> "pending", amount |-> amount,
                     fineAmount |-> fineAmountOf(day), isLate |-> isPaymentLate(day),
                     memberId |-> member, paymentMonth |-> pm,
                     paymentDate |-> day]
         IN \/ /\ submissions' = [submissions EXCEPT ![sid] = doc]
               /\ Goto(p, "fsp_member",
                       [NoLoc EXCEPT !.sid = sid, !.memberId = member, !.sub = doc])
               /\ UNCHANGED faults
            \/ /\ Throws
               /\ Finish(p, "submit", 0, member, "failed")
               /\ UNCHANGED submissions
    /\ UNCHANGED <<members, interestPool, rtVars, pendingSubmissions, otherVars>>

\* members/{id}.update({pendingCount: increment(1)}), then the SMS (its failure
\* is caught): the reference is returned
FS_submitPOP_member(p) ==
    /\ pc[p] = "fsp_member"
    /\ LET m == loc[p].memberId
       IN \/ /\ members' = IF m = NoMember THEN members
                            ELSE [members EXCEPT ![m].pendingCount = @ + 1]
             /\ Finish(p, "submit", loc[p].sid, m, sendSMS(sideEffects.sms))
             /\ UNCHANGED faults
          \/ /\ m # NoMember
             /\ Throws
             /\ Finish(p, "submit", loc[p].sid, m, "failed")
             /\ UNCHANGED members
    /\ UNCHANGED <<submissions, interestPool, rtVars, pendingSubmissions, otherVars>>

\* ---------------------------------------------------------- approveSubmission
\* the memberId argument: any member or null, or only the submission's own link
AnyMemberArg(sid) == Members \cup {NoMember}
OwnMemberArg(sid) == {submissions[sid].memberId}

\* getSubmission and the guard on its result (there is none on its status)
FS_approveSubmission_getSubmission(p, sid, memberId) ==
    /\ Begin(p)
    /\ Undecided(sid)
    /\ LET submission == submissions[sid]
       IN IF ~submission.exists
          THEN Finish(p, "approve", sid, memberId, "notFound")
          ELSE Goto(p, IF memberId # NoMember THEN "fap_getMember" ELSE "fap_commit",
                    [NoLoc EXCEPT !.sid = sid, !.sub = submission,
                                  !.memberId = memberId])
    /\ UNCHANGED <<fsVars, rtVars, pendingSubmissions, otherVars, faults>>

\* member = await this.getMember(memberId)
FS_approveSubmission_getMember(p) ==
    /\ pc[p] = "fap_getMember"
    /\ Goto(p, "fap_commit",
            [loc[p] EXCEPT !.member = members[loc[p].memberId], !.hasMember = TRUE])
    /\ UNCHANGED <<fsVars, rtVars, pendingSubmissions, otherVars, faults>>

\* the member fields the approval batch writes: increments, and the eligibility
\* flag computed from the member read before
FS_ApprovedMember(cur, member, amount, fineAmount) ==
    [cur EXCEPT !.totalSavings = @ + amount,
                !.totalFines = @ + fineAmount,
                !.submissionCount = @ + 1,
                !.verifiedCount = @ + 1,
                !.pendingCount = @ - 1,
                !.qualifiesForInterest =
                    qualifiesForInterest(member.totalSavings + amount)]

\* batch.commit(): submission, member and interest pool in one atomic write
FS_approveSubmission_commit(p) ==
    /\ pc[p] = "fap_commit"
    /\ LET l == loc[p]
           fineAmount == l.sub.fineAmount
           paymentYear == paymentYearOf(l.sub.paymentMonth)
       IN \/ /\ submissions' = [submissions EXCEPT ![l.sid].status = "verified",
                                                   ![l.sid].memberId = l.memberId]
             /\ members' = IF l.memberId # NoMember
                            THEN [members EXCEPT ![l.memberId] =
                                    FS_ApprovedMember(@, l.member, l.sub.amount,
                                                      fineAmount)]
                            ELSE members
             /\ interestPool' = IF fineAmount > 0
                                 THEN [interestPool EXCEPT ![paymentYear] = @ + fineAmount]
                                 ELSE interestPool
             /\ Goto(p, "fap_notify",
                     [l EXCEPT !.stored = IF l.memberId # NoMember
                                          THEN members'[l.memberId].totalSavings
                                          ELSE 0])
             /\ UNCHANGED faults
          \/ /\ Throws
             /\ Finish(p, "approve", l.sid, l.memberId, "failed")
             /\ UNCHANGED fsVars
    /\ UNCHANGED <<rtVars, pendingSubmissions, otherVars>>

\* member?.totalSavings || submission.amount, the member read again
totalSaved(memberId, amount) ==
    IF memberId # NoMember /\ members[memberId].totalSavings # 0
    THEN members[memberId].totalSavings
    ELSE amount

\* Auth.logAdminAction, getMember and the approval SMS: a failure of the log or
\* of the SMS is caught
FS_approveSubmission_notify(p) ==
    /\ pc[p] = "fap_notify"
    /\ FinishWith(p, "approve", loc[p].sid, loc[p].memberId, Logged,
                  [loc[p] EXCEPT !.totalSaved = totalSaved(loc[p].memberId,
                                                           loc[p].sub.amount)],
                  NewMember)
    /\ UNCHANGED <<fsVars, rtVars, pendingSubmissions, otherVars, faults>>

\* ----------------------------------------------------------- rejectSubmission
FS_rejectSubmission_getSubmission(p, sid) ==
    /\ Begin(p)
    /\ Undecided(sid)
    /\ LET submission == submissions[sid]
       IN IF ~submission.exists
          THEN Finish(p, "reject", sid, NoMember, "notFound")
          ELSE Goto(p, "frj_commit",
                    [NoLoc EXCEPT !.sid = sid, !.sub = submission,
                                  !.memberId = submission.memberId])
    /\ UNCHANGED <<fsVars, rtVars, pendingSubmissions, otherVars, faults>>

FS_rejectSubmission_commit(p) ==
    /\ pc[p] = "frj_commit"
    /\ LET l == loc[p]
       IN \/ /\ submissions' = [submissions EXCEPT ![l.sid].status = "rejected"]
             /\ members' = IF l.memberId # NoMember
                            THEN [members EXCEPT ![l.memberId] = RejectedMember(@)]
                            ELSE members
             /\ Goto(p, "frj_notify", l)
             /\ UNCHANGED faults
          \/ /\ Throws
             /\ Finish(p, "reject", l.sid, l.memberId, "failed")
             /\ UNCHANGED <<submissions, members>>
    /\ UNCHANGED <<interestPool, rtVars, pendingSubmissions, otherVars>>

FS_rejectSubmission_notify(p) ==
    /\ pc[p] = "frj_notify"
    /\ Finish(p, "reject", loc[p].sid, loc[p].memberId, Logged)
    /\ UNCHANGED <<fsVars, rtVars, pendingSubmissions, otherVars, faults>>

\* ----------------------------------------------------- recalculateMemberStats
\* the documents of a query snapshot: where('memberId', '==', memberId)
DocsOf(subs, memberId) == {s \in SubIds : subs[s].exists /\ subs[s].memberId = memberId}

RECURSIVE SumOver(_, _, _)
\* the forEach accumulation of one numeric field over a set of documents
SumOver(subs, ids, field) ==
    IF ids = {} THEN 0
    ELSE LET s == CHOOSE x \in ids : TRUE
         IN subs[s][field] + SumOver(subs, ids \ {s}, field)

\* a fold that takes the amounts and fines of every document, whatever its status
RecalculatedStatsAnyStatus(subs, memberId) ==
    LET docs == DocsOf(subs, memberId)
        verified == {s \in docs : subs[s].status = "verified"}
        totalSavings == SumOver(subs, docs, "amount")
    IN [totalSavings |-> totalSavings,
        totalFines |-> SumOver(subs, docs, "fineAmount"),
        submissionCount |-> Cardinality(docs),
        verifiedCount |-> Cardinality(verified),
        pendingCount |-> Cardinality({s \in docs : subs[s].status = "pending"}),
        rejectedCount |-> Cardinality({s \in docs : subs[s].status = "rejected"}),
        qualifiesForInterest |-> qualifiesForInterest(totalSavings)]

\* the fold of recalculateMemberStats over the snapshot
RecalculatedStats(subs, memberId) ==
    LET docs == DocsOf(subs, memberId)
        verified == {s \in docs : subs[s].status = "verified"}
        totalSavings == SumOver(subs, verified, "amount")
    IN [totalSavings |-> totalSavings,
        totalFines |-> SumOver(subs, verified, "fineAmount"),
        submissionCount |-> Cardinality(docs),
        verifiedCount |-> Cardinality(verified),
        pendingCount |-> Cardinality({s \in docs : subs[s].status = "pending"}),
        rejectedCount |-> Cardinality({s \in docs : subs[s].status = "rejected"}),
        qualifiesForInterest |-> qualifiesForInterest(totalSavings)]

\* an update that adds the recalculated sums to the stored ones
RecalculatedAdded(cur, stats) ==
    [cur EXCEPT !.totalSavings = @ + stats.totalSavings,
                !.totalFines = @ + stats.totalFines,
                !.submissionCount = stats.submissionCount,
                !.verifiedCount = stats.verifiedCount,
                !.pendingCount = stats.pendingCount,
                !.rejectedCount = stats.rejectedCount,
                !.qualifiesForInterest = stats.qualifiesForInterest]

\* members/{id}.update({...}) with the recalculated values
Recalculated(cur, stats) ==
    [cur EXCEPT !.totalSavings = stats.totalSavings,
                !.totalFines = stats.totalFines,
                !.submissionCount = stats.submissionCount,
                !.verifiedCount = stats.verifiedCount,
                !.pendingCount = stats.pendingCount,
                !.rejectedCount = stats.rejectedCount,
                !.qualifiesForInterest = stats.qualifiesForInterest]

\* member = await this.getMember(memberId); the call notes whether it directly
\* follows a recalculation of the same member that returned, and what that
\* one returned
recalculateMemberStats_getMember(p, memberId) ==
    /\ Begin(p)
    /\ IF memberId \notin Members
       THEN Finish(p, "recalculate", 0, memberId, "notFound")
       ELSE LET again == /\ last.op = "recalculate" /\ last.res = "ok"
                         /\ last.memberId = memberId
            IN Goto(p, "rc_query",
                    [NoLoc EXCEPT !.memberId = memberId,
                                  !.member = members[memberId],
                                  !.again = again,
                                  !.prev = IF again THEN last.stats ELSE NoStats])
    /\ UNCHANGED <<fsVars, rtVars, pendingSubmissions, otherVars, faults>>

\* the query for the member's submissions and the fold over its snapshot
recalculateMemberStats_query(p) ==
    /\ pc[p] = "rc_query"
    /\ \/ /\ Goto(p, "rc_update",
                  [loc[p] EXCEPT !.stats =
                      RecalculatedStats(submissions, loc[p].memberId)])
          /\ UNCHANGED faults
       \/ /\ Throws
          /\ Finish(p, "recalculate", 0, loc[p].memberId, "failed")
    /\ UNCHANGED <<fsVars, rtVars, pendingSubmissions, otherVars>>

\* the update of the member document; the statistics are returned
recalculateMemberStats_update(p) ==
    /\ pc[p] = "rc_update"
    /\ LET l == loc[p]
       IN \/ /\ members' = [members EXCEPT ![l.memberId] = Recalculated(@, l.stats)]
             /\ FinishWith(p, "recalculate", 0, l.memberId, "ok", l, l.member)
             /\ UNCHANGED faults
          \/ /\ Throws
             /\ Finish(p, "recalculate", 0, l.memberId, "failed")
             /\ UNCHANGED members
    /\ UNCHANGED <<submissions, interestPool, rtVars, pendingSubmissions, otherVars>>

NextSingle ==
    \E p \in Procs :
        \/ FS_submitPOP_add(p, SomePhones, Labels, Amounts)
        \/ FS_submitPOP_member(p)
        \/ \E sid \in SubIds : \E memberId \in OwnMemberArg(sid) :
              FS_approveSubmission_getSubmission(p, sid, memberId)
        \/ FS_approveSubmission_getMember(p)
        \/ FS_approveSubmission_commit(p)
        \/ FS_approveSubmission_notify(p)
        \/ \E sid \in SubIds : FS_rejectSubmission_getSubmission(p, sid)
        \/ FS_rejectSubmission_commit(p)
        \/ FS_rejectSubmission_notify(p)

SpecSingle == Init /\ [][NextSingle]_vars

\* the amount typed in the race of the recalculation
OneAmount == {<<"3", "0", "0">>}

\* recalculateMemberStats next to the calls that change a member, two callers
NextRecalcRace ==
    \E p \in Procs :
        \/ FS_submitPOP_add(p, LinkedPhones, Labels, OneAmount)
        \/ FS_submitPOP_member(p)
        \/ \E sid \in SubIds : \E memberId \in OwnMemberArg(sid) :
              FS_approveSubmission_getSubmission(p, sid, memberId)
        \/ FS_approveSubmission_getMember(p)
        \/ FS_approveSubmission_commit(p)
        \/ FS_approveSubmission_notify(p)
        \/ \E sid \in SubIds : FS_rejectSubmission_getSubmission(p, sid)
        \/ FS_rejectSubmission_commit(p)
        \/ FS_rejectSubmission_notify(p)
        \/ \E memberId \in {"m1"} : recalculateMemberStats_getMember(p, memberId)
        \/ recalculateMemberStats_query(p)
        \/ recalculateMemberStats_update(p)

SpecRecalcRace == Init /\ [][NextRecalcRace]_vars

NextSingleSeq ==
    \E p \in One :
        \/ FS_submitPOP_add(p, SomePhones, Labels, Amounts)
        \/ FS_submitPOP_member(p)
        \/ \E sid \in SubIds : \E memberId \in AnyMemberArg(sid) :
              FS_approveSubmission_getSubmission(p, sid, memberId)
        \/ FS_approveSubmission_getMember(p)
        \/ FS_approveSubmission_commit(p)
        \/ FS_approveSubmission_notify(p)
        \/ \E sid \in SubIds : FS_rejectSubmission_getSubmission(p, sid)
        \/ FS_rejectSubmission_commit(p)
        \/ FS_rejectSubmission_notify(p)
        \/ \E memberId \in Members \cup {NoMember} :
              recalculateMemberStats_getMember(p, memberId)
        \/ recalculateMemberStats_query(p)
        \/ recalculateMemberStats_update(p)

SpecSingleSeq == InitSeq /\ [][NextSingleSeq]_vars

\* ======================================================================
\* Admin dashboard (src/unnamed/part_008): it writes to Firestore directly
\* ======================================================================

\* the snapshot of submissions where status == 'pending'
PendingDocs ==
    [s \in SubIds |-> IF submissions[s].exists /\ submissions[s].status = "pending"
                      THEN submissions[s] ELSE NoDoc]

\* loadPendingSubmissions: the list is replaced when the query succeeds; its
\* failure is caught and leaves the list as it was
Admin_loadPendingSubmissions(p) ==
    /\ Begin(p)
    /\ \/ /\ pendingSubmissions' = PendingDocs
          /\ Finish(p, "load", 0, NoMember, "ok")
          /\ UNCHANGED faults
       \/ /\ Throws
          /\ Finish(p, "load", 0, NoMember, "failed")
          /\ UNCHANGED pendingSubmissions
    /\ UNCHANGED <<fsVars, rtVars, otherVars>>

\* approveSubmission up to the update of the submission document; the member
\* as stored when the call begins is kept with the locals
Admin_approveSubmission_update(p, sid) ==
    /\ Begin(p)
    /\ Undecided(sid)
    /\ LET submission == pendingSubmissions[sid]
           l == [NoLoc EXCEPT !.sid = sid, !.sub = submission,
                              !.memberId = submission.memberId,
                              !.member = IF submission.memberId # NoMember
                                         THEN members[submission.memberId]
                                         ELSE NewMember]
       IN IF ~submission.exists
          THEN /\ Finish(p, "approve", sid, NoMember, "notListed")
               /\ UNCHANGED <<submissions, faults>>
          ELSE \/ /\ FinishWith(p, "approve", sid, l.memberId, "cancelled", l, l.member)
                  /\ UNCHANGED <<submissions, faults>>
               \/ /\ submissions' = [submissions EXCEPT ![sid].status = "verified"]
                  /\ Goto(p, IF l.memberId # NoMember THEN "aap_member"
                                                      ELSE "aap_reload", l)
                  /\ UNCHANGED faults
               \/ /\ Throws
                  /\ FinishWith(p, "approve", sid, l.memberId, "failed", l, l.member)
                  /\ UNCHANGED submissions
    /\ UNCHANGED <<members, interestPool, rtVars, pendingSubmissions, otherVars>>

\* memberRef.update({totalSaved: increment(submission.amount || 0)})
Admin_approveSubmission_member(p) ==
    /\ pc[p] = "aap_member"
    /\ LET l == loc[p]
       IN \/ /\ members' = [members EXCEPT ![l.memberId].totalSaved = @ + l.sub.amount]
             /\ Goto(p, "aap_reload", l)
             /\ UNCHANGED faults
          \/ /\ Throws
             /\ FinishWith(p, "approve", l.sid, l.memberId, "failed", l, l.member)
             /\ UNCHANGED members
    /\ UNCHANGED <<submissions, interestPool, rtVars, pendingSubmissions, otherVars>>

\* 'Payment approved!', then loadPendingSubmissions and loadStats, which catch
\* their own failures
Admin_approveSubmission_reload(p) ==
    /\ pc[p] = "aap_reload"
    /\ \/ /\ pendingSubmissions' = PendingDocs
          /\ UNCHANGED faults
       \/ /\ Throws
          /\ UNCHANGED pendingSubmissions
    /\ Finish(p, "approve", loc[p].sid, loc[p].memberId, "ok")
    /\ UNCHANGED <<fsVars, rtVars, otherVars>>

\* rejectSubmission up to the update of the submission document
Admin_rejectSubmission_update(p, sid) ==
    /\ Begin(p)
    /\ Undecided(sid)
    /\ LET submission == pendingSubmissions[sid]
           l == [NoLoc EXCEPT !.sid = sid, !.sub = submission,
                              !.memberId = submission.memberId,
                              !.member = IF submission.memberId # NoMember
                                         THEN members[submission.memberId]
                                         ELSE NewMember]
       IN IF ~submission.exists
          THEN /\ Finish(p, "reject", sid, NoMember, "notListed")
               /\ UNCHANGED <<submissions, faults>>
          ELSE \/ /\ FinishWith(p, "reject", sid, l.memberId, "cancelled", l, l.member)
                  /\ UNCHANGED <<submissions, faults>>
               \/ /\ submissions' = [submissions EXCEPT ![sid].status = "rejected"]
                  /\ Goto(p, "arj_reload", l)
                  /\ UNCHANGED faults
               \/ /\ Throws
                  /\ FinishWith(p, "reject", sid, l.memberId, "failed", l, l.member)
                  /\ UNCHANGED submissions
    /\ UNCHANGED <<members, interestPool, rtVars, pendingSubmissions, otherVars>>

\* 'Submission rejected', then loadPendingSubmissions
Admin_rejectSubmission_reload(p) ==
    /\ pc[p] = "arj_reload"
    /\ \/ /\ pendingSubmissions' = PendingDocs
          /\ UNCHANGED faults
       \/ /\ Throws
          /\ UNCHANGED pendingSubmissions
    /\ Finish(p, "reject", loc[p].sid, loc[p].memberId, "ok")
    /\ UNCHANGED <<fsVars, rtVars, otherVars>>

NextAdmin ==
    \E p \in One :
        \/ FS_submitPOP_add(p, Phones, Labels, Amounts)
        \/ FS_submitPOP_member(p)
        \/ Admin_loadPendingSubmissions(p)
        \/ \E sid \in SubIds : Admin_approveSubmission_update(p, sid)
        \/ Admin_approveSubmission_member(p)
        \/ Admin_approveSubmission_reload(p)
        \/ \E sid \in SubIds : Admin_rejectSubmission_update(p, sid)
        \/ Admin_rejectSubmission_reload(p)

SpecAdmin == InitSeq /\ [][NextAdmin]_vars

\* ======================================================================
\* Bulk recalculation (src/js/submit-pop.js, recalculateAllMemberStats)
\* ======================================================================

\* getMembers(): the member documents ordered by name
MembersByName == <<"m1", "m2">>

\* members = await this.getMembers(); count = 0
recalculateAllMemberStats_getMembers(p) ==
    /\ Begin(p)
    /\ \/ /\ Goto(p, "ra_getMember", [NoLoc EXCEPT !.todo = MembersByName])
          /\ UNCHANGED faults
       \/ /\ Throws
          /\ Finish(p, "recalculateAll", 0, NoMember, "failed")
    /\ UNCHANGED <<fsVars, rtVars, pendingSubmissions, otherVars>>

\* for (const member of members): recalculateMemberStats reads the member; after
\* the last member Auth.logAdminAction (which catches its failure) and return count
recalculateAllMemberStats_next(p) ==
    /\ pc[p] = "ra_getMember"
    /\ LET l == loc[p]
       IN IF l.todo = <<>>
          THEN Finish(p, "recalculateAll", 0, NoMember, "ok")
          ELSE Goto(p, "ra_query", [l EXCEPT !.memberId = Head(l.todo),
                                             !.member = members[Head(l.todo)]])
    /\ UNCHANGED <<fsVars, rtVars, pendingSubmissions, otherVars, faults>>

\* recalculateMemberStats: the query and the fold; a throw leaves the loop and
\* the function through its catch, which rethrows
recalculateAllMemberStats_query(p) ==
    /\ pc[p] = "ra_query"
    /\ LET l == loc[p]
       IN \/ /\ Goto(p, "ra_update",
                     [l EXCEPT !.stats = RecalculatedStats(submissions, l.memberId)])
             /\ UNCHANGED faults
          \/ /\ Throws
             /\ Finish(p, "recalculateAll", 0, l.memberId, "failed")
    /\ UNCHANGED <<fsVars, rtVars, pendingSubmissions, otherVars>>

\* recalculateMemberStats: the update of the member document; count++
recalculateAllMemberStats_update(p) ==
    /\ pc[p] = "ra_update"
    /\ LET l == loc[p]
       IN \/ /\ members' = [members EXCEPT ![l.memberId] = Recalculated(@, l.stats)]
             /\ Goto(p, "ra_getMember",
                     [l EXCEPT !.todo = Tail(l.todo), !.count = l.count + 1,
                               !.memberId = NoMember, !.member = NewMember,
                               !.stats = NoStats])
             /\ UNCHANGED faults
          \/ /\ Throws
             /\ Finish(p, "recalculateAll", 0, l.memberId, "failed")
             /\ UNCHANGED members
    /\ UNCHANGED <<submissions, interestPool, rtVars, pendingSubmissions, otherVars>>

NextBulk ==
    \E p \in One :
        \/ FS_submitPOP_add(p, Phones, Labels, Amounts)
        \/ FS_submitPOP_member(p)
        \/ \E sid \in SubIds : \E memberId \in OwnMemberArg(sid) :
              FS_approveSubmission_getSubmission(p, sid, memberId)
        \/ FS_approveSubmission_getMember(p)
        \/ FS_approveSubmission_commit(p)
        \/ FS_approveSubmission_notify(p)
        \/ recalculateAllMemberStats_getMembers(p)
        \/ recalculateAllMemberStats_next(p)
        \/ recalculateAllMemberStats_query(p)
        \/ recalculateAllMemberStats_update(p)

SpecBulk == InitSeq /\ [][NextBulk]_vars

\* ======================================================================
\* Repair of the Realtime DB (src/unnamed/part_006, syncDataToRealtimeDB)
\* ======================================================================

\* the entry syncDataToRealtimeDB sets for a member of the snapshot
SyncedRtMember(member) ==
    [totalSavings |-> member.totalSavings, totalFines |-> member.totalFines,
     submissionCount |-> member.submissionCount,
     verifiedCount |-> member.verifiedCount,
     pendingCount |-> member.pendingCount,
     qualifiesForInterest |-> qualifiesDual(member.totalSavings)]

\* the submissions in one status (a where('status', '==', ...) query)
WithStatus(status) ==
    {s \in SubIds : submissions[s].exists /\ submissions[s].status = status}

\* totalSavings / totalFines accumulated over the snapshot
RECURSIVE SnapshotTotal(_, _, _)
SnapshotTotal(snapshot, ms, field) ==
    IF ms = {} THEN 0
    ELSE LET m == CHOOSE x \in ms : TRUE
         IN snapshot[m][field] + SnapshotTotal(snapshot, ms \ {m}, field)

\* members = await this.getMembers()
syncDataToRealtimeDB_getMembers(p) ==
    /\ Begin(p)
    /\ \/ /\ Goto(p, "sy_member",
                  [NoLoc EXCEPT !.todo = MembersByName, !.snapshot = members])
          /\ UNCHANGED faults
       \/ /\ Throws
          /\ Finish(p, "sync", 0, NoMember, "failed")
    /\ UNCHANGED <<fsVars, rtVars, pendingSubmissions, otherVars>>

\* one turn of the loop: stokvel/members/{member.id}.set({...})
syncDataToRealtimeDB_member(p) ==
    /\ pc[p] = "sy_member"
    /\ LET l == loc[p]
           m == Head(l.todo)
       IN \/ /\ rtMembers' = [rtMembers EXCEPT ![m] = SyncedRtMember(l.snapshot[m])]
             /\ Goto(p, IF Tail(l.todo) = <<>> THEN "sy_count" ELSE "sy_member",
                     [l EXCEPT !.todo = Tail(@)])
             /\ UNCHANGED faults
          \/ /\ Throws
             /\ Finish(p, "sync", 0, m, "failed")
             /\ UNCHANGED rtMembers
    /\ UNCHANGED <<fsVars, rtTotals, rtPool, pendingSubmissions, otherVars>>

\* the queries for the pending, verified and rejected submissions
syncDataToRealtimeDB_count(p) ==
    /\ pc[p] = "sy_count"
    /\ \/ /\ Goto(p, "sy_totals",
                  [loc[p] EXCEPT !.stats =
                      [NoStats EXCEPT
                         !.pendingCount = Cardinality(WithStatus("pending")),
                         !.verifiedCount = Cardinality(WithStatus("verified")),
                         !.rejectedCount = Cardinality(WithStatus("rejected"))]])
          /\ UNCHANGED faults
       \/ /\ Throws
          /\ Finish(p, "sync", 0, NoMember, "failed")
    /\ UNCHANGED <<fsVars, rtVars, pendingSubmissions, otherVars>>

\* stokvel/totals.set({...})
syncDataToRealtimeDB_totals(p) ==
    /\ pc[p] = "sy_totals"
    /\ LET l == loc[p]
       IN \/ /\ rtTotals' =
                  [totalSavings |-> SnapshotTotal(l.snapshot, Members, "totalSavings"),
                   totalFines |-> SnapshotTotal(l.snapshot, Members, "totalFines"),
                   pendingSubmissions |-> l.stats.pendingCount,
                   approvedSubmissions |-> l.stats.verifiedCount,
                   rejectedSubmissions |-> l.stats.rejectedCount,
                   totalSubmissions |-> l.stats.pendingCount + l.stats.verifiedCount
                                          + l.stats.rejectedCount]
             /\ Finish(p, "sync", 0, NoMember, "ok")
             /\ UNCHANGED faults
          \/ /\ Throws
             /\ Finish(p, "sync", 0, NoMember, "failed")
             /\ UNCHANGED rtTotals
    /\ UNCHANGED <<fsVars, rtMembers, rtPool, pendingSubmissions, otherVars>>

\* the dual-store calls, where one store call may fail, and the two repairs,
\* one call at a time
NextRepair ==
    \E p \in One :
        \/ submitPOP_add(p, LinkedPhones, LateDays, Amounts)
        \/ submitPOP_member(p)
        \/ submitPOP_rtTotals(p)
        \/ submitPOP_rtMember(p)
        \/ approveSubmission_getSubmission(p)
        \/ approveSubmission_getMember(p)
        \/ approveSubmission_commit(p)
        \/ approveSubmission_rtTotals(p)
        \/ approveSubmission_rtMember(p)
        \/ approveSubmission_rtPool(p)
        \/ \E memberId \in Members : recalculateMemberStats_getMember(p, memberId)
        \/ recalculateMemberStats_query(p)
        \/ recalculateMemberStats_update(p)
        \/ syncDataToRealtimeDB_getMembers(p)
        \/ syncDataToRealtimeDB_member(p)
        \/ syncDataToRealtimeDB_count(p)
        \/ syncDataToRealtimeDB_totals(p)

SpecRepair == InitSeq /\ [][NextRepair]_vars

\* ----------------------------------------------------------------------
\* Fines routed to the interest pool: one caller, labels of several formats
\* ----------------------------------------------------------------------
NextPool ==
    \E p \in One :
        \/ FS_submitPOP_add(p, SomePhones, PoolLabels, Amounts)
        \/ FS_submitPOP_member(p)
        \/ \E sid \in SubIds : \E memberId \in OwnMemberArg(sid) :
              FS_approveSubmission_getSubmission(p, sid, memberId)
        \/ FS_approveSubmission_getMember(p)
        \/ FS_approveSubmission_commit(p)
        \/ FS_approveSubmission_notify(p)

SpecPool == Init /\ [][NextPool]_vars

\* ======================================================================
\* Interest distribution (src/js/submit-pop.js)
\* ======================================================================
MaxBankInterest == 50   \* bank interest is added while the pool holds less

\* the fields updateMember is called with
MemberUpdates == {[field |-> "status", value |-> "inactive"],
                  [field |-> "totalSavings", value |-> 10000]}

\* updateMember(memberId, updates): qualifiesForInterest is recomputed when
\* totalSavings is among the updates
updateMember(p, memberId, updates) ==
    /\ Begin(p)
    /\ \/ /\ members' =
               IF updates.field = "status"
               THEN [members EXCEPT ![memberId].status = updates.value]
               ELSE [members EXCEPT
                       ![memberId].totalSavings = updates.value,
                       ![memberId].qualifiesForInterest =
                           qualifiesForInterest(updates.value)]
          /\ Finish(p, "updateMember", 0, memberId, "ok")
          /\ UNCHANGED faults
       \/ /\ Throws
          /\ Finish(p, "updateMember", 0, memberId, "failed")
          /\ UNCHANGED members
    /\ UNCHANGED <<submissions, interestPool, rtVars, pendingSubmissions, otherVars>>

\* addBankInterest(year, amount): bankInterest increment(amount), merge
addBankInterest(p, year, amount) ==
    /\ Begin(p)
    /\ bankInterest[year] < MaxBankInterest
    /\ \/ /\ bankInterest' = [bankInterest EXCEPT ![year] = @ + amount]
          /\ Finish(p, "addBankInterest", 0, NoMember, "ok")
          /\ UNCHANGED faults
       \/ /\ Throws
          /\ Finish(p, "addBankInterest", 0, NoMember, "failed")
          /\ UNCHANGED bankInterest
    /\ UNCHANGED <<fsVars, rtVars, pendingSubmissions, registry, sideEffects, otpVars, idVars,
                   clientVars>>

\* a share computed without the guard on the number of members and rounded up
perMemberRoundedUp(totalPool, qualifying) ==
    IF qualifying > 0 THEN (totalPool + qualifying - 1) \div qualifying ELSE totalPool

\* qualifyingMembers.length > 0 ? Math.floor(totalPool / length) : 0
perMember(totalPool, qualifying) ==
    IF qualifying > 0 THEN totalPool \div qualifying ELSE 0

\* members.filter(m => m.status === 'active' && (m.totalSavings || 0) >= threshold)
qualifyingMembers ==
    {m \in Members : /\ members[m].status = "active"
                     /\ members[m].totalSavings >=
                          SettingOr("interestEligibilityMin", 10000)}

\* pool = await this.getInterestPool(year)
calculateInterestDistribution_getInterestPool(p, year) ==
    /\ Begin(p)
    /\ \/ /\ Goto(p, "cd_getMembers",
                  [NoLoc EXCEPT !.year = year,
                                !.pool = <<interestPool[year], bankInterest[year]>>])
          /\ UNCHANGED faults
       \/ /\ Throws
          /\ Finish(p, "distribution", 0, NoMember, "failed")
    /\ UNCHANGED <<fsVars, rtVars, pendingSubmissions, otherVars>>

\* members = await this.getMembers(), the filter, the share and the result
calculateInterestDistribution_getMembers(p) ==
    /\ pc[p] = "cd_getMembers"
    /\ LET l == loc[p]
           totalPool == l.pool[1] + l.pool[2]
           share == perMember(totalPool, Cardinality(qualifyingMembers))
       IN \/ /\ pc' = [pc EXCEPT ![p] = "idle"]
             /\ loc' = [loc EXCEPT ![p] = NoLoc]
             /\ last' = [NoLast EXCEPT
                           !.op = "distribution", !.res = "ok",
                           !.distribution =
                               [year |-> l.year, totalPool |-> totalPool,
                                perMemberAmount |-> share,
                                shareAmount |-> [m \in qualifyingMembers |-> share]]]
             /\ UNCHANGED <<oks, faults>>
          \/ /\ Throws
             /\ Finish(p, "distribution", 0, NoMember, "failed")
    /\ UNCHANGED <<fsVars, rtVars, pendingSubmissions, otherVars>>

NextDistribution ==
    \E p \in One :
        \/ FS_submitPOP_add(p, SomePhones, Labels, Amounts)
        \/ FS_submitPOP_member(p)
        \/ \E sid \in SubIds : \E memberId \in OwnMemberArg(sid) :
              FS_approveSubmission_getSubmission(p, sid, memberId)
        \/ FS_approveSubmission_getMember(p)
        \/ FS_approveSubmission_commit(p)
        \/ FS_approveSubmission_notify(p)
        \/ \E memberId \in Members, updates \in MemberUpdates :
              updateMember(p, memberId, updates)
        \/ \E year \in Years : addBankInterest(p, year, 25)
        \/ \E year \in Years : calculateInterestDistribution_getInterestPool(p, year)
        \/ calculateInterestDistribution_getMembers(p)

SpecDistribution == Init /\ [][NextDistribution]_vars

\* ======================================================================
\* Member registration (src/js/submit-pop.js)
\* ======================================================================
\* phones as typed into the form, character by character
RegPhones == {<<"0", "7", "1">>, <<"0", "7", "-", "1">>, <<"0", "8", "2">>}
IdNumbers == {"8001015009087", "9202204720082"}
MemberData == [phone : RegPhones, idNumber : IdNumbers]

\* the characters Math.random selects in generateMemberRef
RefChars == {"M4K7", "P2QX"}

\* phone.replace(/[\s-]/g, '')
normalizePhone(phone) == SelectSeq(phone, LAMBDA c : c \notin {" ", "-"})

\* generateMemberRef: 'TRF-M' and the characters drawn
generateMemberRef(chars) == <<"TRF-M", chars>>

\* where('phone', '==', normalizedPhone).limit(1): is the snapshot non-empty
existingMember(phone) ==
    \E i \in RegIds : registry[i].exists /\ registry[i].phone = normalizePhone(phone)

\* where('idNumber', '==', idNumber).limit(1): is the snapshot non-empty
existingId(idNumber) ==
    \E i \in RegIds : registry[i].exists /\ registry[i].idNumber = idNumber

\* db.collection('members').add: the first free document id
FreeRegIds == {i \in RegIds : ~registry[i].exists}
NextRegId == CHOOSE i \in FreeRegIds : \A j \in FreeRegIds : i <= j

\* a document id is left for this call and for the registrations under way
Registering == {q \in Procs : pc[q] \in {"rm_getMemberByIdNumber", "rm_add"}}
RoomToRegister == Cardinality(FreeRegIds) > Cardinality(Registering)

\* registerMember: getMemberByPhone and the throw when the phone is registered
registerMember_getMemberByPhone(p, memberData) ==
    /\ Begin(p)
    /\ RoomToRegister
    /\ \/ /\ existingMember(memberData.phone)
          /\ Finish(p, "registerMember", 0, NoMember, "failed")
          /\ UNCHANGED faults
       \/ /\ ~existingMember(memberData.phone)
          /\ Goto(p, "rm_getMemberByIdNumber", [NoLoc EXCEPT !.data = memberData])
          /\ UNCHANGED faults
       \/ /\ Throws
          /\ Finish(p, "registerMember", 0, NoMember, "failed")
    /\ UNCHANGED <<fsVars, rtVars, pendingSubmissions, otherVars>>

\* registerMember: getMemberByIdNumber and the throw when the ID is registered
registerMember_getMemberByIdNumber(p) ==
    /\ pc[p] = "rm_getMemberByIdNumber"
    /\ \/ /\ existingId(loc[p].data.idNumber)
          /\ Finish(p, "registerMember", 0, NoMember, "failed")
          /\ UNCHANGED faults
       \/ /\ ~existingId(loc[p].data.idNumber)
          /\ Goto(p, "rm_add", loc[p])
          /\ UNCHANGED faults
       \/ /\ Throws
          /\ Finish(p, "registerMember", 0, NoMember, "failed")
    /\ UNCHANGED <<fsVars, rtVars, pendingSubmissions, otherVars>>

\* registerMember: generateMemberRef, hashPassword and collection('members').add
registerMember_add(p, chars) ==
    /\ pc[p] = "rm_add"
    /\ \/ /\ registry' = [registry EXCEPT ![NextRegId] =
                  [exists |-> TRUE,
                   phone |-> normalizePhone(loc[p].data.phone),
                   idNumber |-> loc[p].data.idNumber,
                   memberRef |-> generateMemberRef(chars),
                   registrationSource |-> "public_form"]]
          /\ Finish(p, "registerMember", 0, NoMember, "ok")
          /\ UNCHANGED faults
       \/ /\ Throws
          /\ Finish(p, "registerMember", 0, NoMember, "failed")
          /\ UNCHANGED registry
    /\ UNCHANGED <<fsVars, rtVars, pendingSubmissions, bankInterest, sideEffects, otpVars, idVars,
                   clientVars>>

\* addMember(memberData): generateMemberRef and collection('members').add; the
\* document has no idNumber field
addMember(p, phone, chars) ==
    /\ Begin(p)
    /\ RoomToRegister
    /\ \/ /\ registry' = [registry EXCEPT ![NextRegId] =
                  [exists |-> TRUE,
                   phone |-> normalizePhone(phone),
                   idNumber |-> "undefined",
                   memberRef |-> generateMemberRef(chars),
                   registrationSource |-> "admin_added"]]
          /\ Finish(p, "addMember", 0, NoMember, "ok")
          /\ UNCHANGED faults
       \/ /\ Throws
          /\ Finish(p, "addMember", 0, NoMember, "failed")
          /\ UNCHANGED registry
    /\ UNCHANGED <<fsVars, rtVars, pendingSubmissions, bankInterest, sideEffects, otpVars, idVars,
                   clientVars>>

\* member creation, one call at a time
NextRegistry ==
    \E p \in One :
        \/ \E memberData \in MemberData : registerMember_getMemberByPhone(p, memberData)
        \/ registerMember_getMemberByIdNumber(p)
        \/ \E chars \in RefChars : registerMember_add(p, chars)
        \/ \E phone \in RegPhones, chars \in RefChars : addMember(p, phone, chars)

SpecRegistry == InitSeq /\ [][NextRegistry]_vars

\* registerMember alone, from two callers
NextRegister ==
    \E p \in Procs :
        \/ \E memberData \in MemberData : registerMember_getMemberByPhone(p, memberData)
        \/ registerMember_getMemberByIdNumber(p)
        \/ \E chars \in RefChars : registerMember_add(p, chars)

SpecRegister == Init /\ [][NextRegister]_vars

\* ======================================================================
\* Side effects: the handlers of both modules, one call at a time, with audit
\* logs and SMS that succeed or not
\* ======================================================================
NextEffects ==
    \E p \in One :
        \/ submitPOP_add(p, LinkedPhones, LateDays, Amounts)
        \/ submitPOP_member(p)
        \/ submitPOP_rtTotals(p)
        \/ submitPOP_rtMember(p)
        \/ approveSubmission_getSubmission(p)
        \/ approveSubmission_getMember(p)
        \/ approveSubmission_commit(p)
        \/ approveSubmission_rtTotals(p)
        \/ approveSubmission_rtMember(p)
        \/ approveSubmission_rtPool(p)
        \/ rejectSubmission_getSubmission(p)
        \/ rejectSubmission_commit(p)
        \/ rejectSubmission_rtTotals(p)
        \/ rejectSubmission_rtMember(p)
        \/ FS_submitPOP_add(p, LinkedPhones, Labels, Amounts)
        \/ FS_submitPOP_member(p)
        \/ \E sid \in SubIds : \E memberId \in OwnMemberArg(sid) :
              FS_approveSubmission_getSubmission(p, sid, memberId)
        \/ FS_approveSubmission_getMember(p)
        \/ FS_approveSubmission_commit(p)
        \/ FS_approveSubmission_notify(p)
        \/ \E sid \in SubIds : FS_rejectSubmission_getSubmission(p, sid)
        \/ FS_rejectSubmission_commit(p)
        \/ FS_rejectSubmission_notify(p)

SpecEffects == InitEffects /\ [][NextEffects]_vars

\* ======================================================================
\* One-time codes (src/unnamed/part_001 and src/js/sms.js)
\* ======================================================================
MaxAttempts == 3

Min(a, b) == IF a <= b THEN a ELSE b

\* the locals of a verifyOTP call: its document id and code, what the history
\* of the phone was when it read the document, and whether the document read
\* was past its expiresAt
VerifyLocals(key, otp) ==
    [NoLoc EXCEPT !.key = key, !.otp = otp,
                  !.again = otpHistory[key].verified = otp,
                  !.count = otpHistory[key].wrong,
                  !.wrong = otpCodes[key].exists /\ otpCodes[key].otp # otp,
                  !.expired = otpCodes[key].exists /\ otpCodes[key].expired]

\* a call on one-time codes returns
FinishOtp(p, op, res, l) ==
    /\ pc' = [pc EXCEPT ![p] = "idle"]
    /\ loc' = [loc EXCEPT ![p] = NoLoc]
    /\ last' = [NoLast EXCEPT !.op = op, !.res = res, !.key = l.key, !.otp = l.otp,
                              !.again = l.again, !.count = l.count,
                              !.expired = l.expired]
    /\ UNCHANGED oks

\* verifyOTP returns res: the history of the phone keeps it
VerifyReturns(p, res, l) ==
    /\ FinishOtp(p, "verifyOTP", res, l)
    /\ otpHistory' = [otpHistory EXCEPT ![l.key] =
          [@ EXCEPT !.verified = IF res = "true" THEN l.otp ELSE @,
                    !.wrong = IF l.wrong /\ otpHistory[l.key].verified = ""
                              THEN Min(@ + 1, MaxAttempts) ELSE @]]

\* a set that stores the code as used
StoredOtpAsUsed(otp) ==
    [exists |-> TRUE, otp |-> otp, used |-> TRUE, expired |-> FALSE, attempts |-> 0]

\* one more wrong code has been compared with the stored code of the phone
Compared(key) ==
    [otpHistory EXCEPT ![key].compared = Min(@ + 1, MaxAttempts + 1)]

\* the history of a phone whose record is set to a new code
Issued(key, otp) ==
    [NoHistory EXCEPT !.issued = otp,
                      !.replaced = IF otpCodes[key].exists THEN otpCodes[key].otp
                                   ELSE ""]

\* docRef.set({otp, used: false, attempts: 0, expiresAt: now + 10 minutes})
StoredOtp(otp) ==
    [exists |-> TRUE, otp |-> otp, used |-> FALSE, expired |-> FALSE, attempts |-> 0]

\* the clock passes the expiresAt of a stored code
TenMinutesPass(key) ==
    /\ otpCodes[key].exists /\ ~otpCodes[key].expired
    /\ otpCodes' = [otpCodes EXCEPT ![key].expired = TRUE]
    /\ last' = NoLast
    /\ UNCHANGED <<fsVars, rtVars, pendingSubmissions, bankInterest, registry,
                   sideEffects, idVars, clientVars, otpHistory, pc, loc, oks, faults>>

\* --------------------------------------------------------------- part_001
\* sendPasswordResetOTP: generateOTP and otpCodes/{phone}.set
sendPasswordResetOTP_set(p, phone, otp) ==
    /\ Begin(p)
    /\ LET key == formatPhoneNumber(phone)
       IN IF key = <<>>
          THEN /\ FinishOtp(p, "sendPasswordResetOTP", "failed", NoLoc)
               /\ UNCHANGED otpVars
          ELSE /\ otpCodes' = [otpCodes EXCEPT ![key] = StoredOtp(otp)]
               /\ otpHistory' = [otpHistory EXCEPT ![key] = Issued(key, otp)]
               /\ Goto(p, "so_sendSMS", [NoLoc EXCEPT !.key = key, !.otp = otp])
    /\ UNCHANGED <<fsVars, rtVars, pendingSubmissions, bankInterest, registry,
                   sideEffects, idVars, clientVars, faults>>

\* sendPasswordResetOTP: sendSMS, and the delete when the SMS was not sent
sendPasswordResetOTP_sendSMS(p) ==
    /\ pc[p] = "so_sendSMS"
    /\ \/ /\ FinishOtp(p, "sendPasswordResetOTP", "ok", loc[p])
          /\ UNCHANGED otpCodes
       \/ /\ otpCodes' = [otpCodes EXCEPT ![loc[p].key] = NoOtp]
          /\ FinishOtp(p, "sendPasswordResetOTP", "failed", loc[p])
    /\ UNCHANGED <<fsVars, rtVars, pendingSubmissions, bankInterest, registry,
                   sideEffects, idVars, clientVars, otpHistory, faults>>

\* verifyOTP: docRef.get and the checks on the document read
verifyOTP_get(p, phone, otp) ==
    /\ Begin(p)
    /\ LET key == formatPhoneNumber(phone)
           data == otpCodes[key]
           l == VerifyLocals(key, otp)
       IN IF key = <<>>
          THEN /\ FinishOtp(p, "verifyOTP", "false", NoLoc)
               /\ UNCHANGED otpHistory
          ELSE IF ~data.exists \/ data.used
          THEN VerifyReturns(p, "false", l)
          ELSE /\ Goto(p, IF data.expired \/ data.attempts >= MaxAttempts
                          THEN "vo_delete"
                          ELSE IF data.otp # otp THEN "vo_increment" ELSE "vo_use",
                       l)
               /\ otpHistory' =
                     IF ~data.expired /\ data.attempts < MaxAttempts /\ data.otp # otp
                     THEN Compared(key)
                     ELSE otpHistory
    /\ UNCHANGED <<fsVars, rtVars, pendingSubmissions, bankInterest, registry,
                   sideEffects, idVars, clientVars, otpCodes, faults>>

\* verifyOTP: docRef.delete of an expired or exhausted code
verifyOTP_delete(p) ==
    /\ pc[p] = "vo_delete"
    /\ otpCodes' = [otpCodes EXCEPT ![loc[p].key] = NoOtp]
    /\ VerifyReturns(p, "false", loc[p])
    /\ UNCHANGED <<fsVars, rtVars, pendingSubmissions, bankInterest, registry,
                   sideEffects, idVars, clientVars, faults>>

\* verifyOTP: docRef.update({attempts: increment(1)}); on a deleted document
\* the update throws and the catch returns false
verifyOTP_increment(p) ==
    /\ pc[p] = "vo_increment"
    /\ otpCodes' = IF otpCodes[loc[p].key].exists
                   THEN [otpCodes EXCEPT ![loc[p].key].attempts = @ + 1]
                   ELSE otpCodes
    /\ VerifyReturns(p, "false", loc[p])
    /\ UNCHANGED <<fsVars, rtVars, pendingSubmissions, bankInterest, registry,
                   sideEffects, idVars, clientVars, faults>>

\* verifyOTP: docRef.update({used: true})
verifyOTP_use(p) ==
    /\ pc[p] = "vo_use"
    /\ IF otpCodes[loc[p].key].exists
       THEN /\ otpCodes' = [otpCodes EXCEPT ![loc[p].key].used = TRUE]
            /\ VerifyReturns(p, "true", loc[p])
       ELSE /\ VerifyReturns(p, "false", loc[p])
            /\ UNCHANGED otpCodes
    /\ UNCHANGED <<fsVars, rtVars, pendingSubmissions, bankInterest, registry,
                   sideEffects, idVars, clientVars, faults>>

\* ----------------------------------------------------------------- sms.js
\* sendPasswordResetOTP: generateOTP and this.send
SmsJs_sendPasswordResetOTP_send(p, phone, otp) ==
    /\ Begin(p)
    /\ LET l == [NoLoc EXCEPT !.key = SmsJs_formatPhoneNumber(phone), !.otp = otp]
       IN \/ Goto(p, "sj_set", l)
          \/ FinishOtp(p, "sendPasswordResetOTP", "failed", l)
    /\ UNCHANGED <<fsVars, rtVars, pendingSubmissions, otherVars, faults>>

\* sendPasswordResetOTP: otpCodes/{phone}.set({otp, expiresAt, used: false})
\* (the document has no attempts field: sms.js counts none)
SmsJs_sendPasswordResetOTP_set(p) ==
    /\ pc[p] = "sj_set"
    /\ otpCodes' = [otpCodes EXCEPT ![loc[p].key] = StoredOtp(loc[p].otp)]
    /\ otpHistory' = [otpHistory EXCEPT ![loc[p].key] = Issued(loc[p].key, loc[p].otp)]
    /\ FinishOtp(p, "sendPasswordResetOTP", "ok", loc[p])
    /\ UNCHANGED <<fsVars, rtVars, pendingSubmissions, bankInterest, registry,
                   sideEffects, idVars, clientVars, faults>>

\* a validity that does not look at the used flag
isValidWhenUsed(data, otp) == data.otp = otp /\ ~data.expired

\* data.otp === otp && !data.used && data.expiresAt.toDate() > new Date()
isValid(data, otp) == data.otp = otp /\ ~data.used /\ ~data.expired

\* verifyOTP: docRef.get and isValid
SmsJs_verifyOTP_get(p, phone, otp) ==
    /\ Begin(p)
    /\ LET key == SmsJs_formatPhoneNumber(phone)
           data == otpCodes[key]
           l == VerifyLocals(key, otp)
       IN IF data.exists /\ isValid(data, otp)
          THEN /\ Goto(p, "sj_use", l)
               /\ UNCHANGED otpHistory
          ELSE VerifyReturns(p, "false", l)
    /\ UNCHANGED <<fsVars, rtVars, pendingSubmissions, bankInterest, registry,
                   sideEffects, idVars, clientVars, otpCodes, faults>>

\* verifyOTP: docRef.update({used: true}) and return isValid
SmsJs_verifyOTP_update(p) ==
    /\ pc[p] = "sj_use"
    /\ IF otpCodes[loc[p].key].exists
       THEN /\ otpCodes' = [otpCodes EXCEPT ![loc[p].key].used = TRUE]
            /\ VerifyReturns(p, "true", loc[p])
       ELSE /\ VerifyReturns(p, "false", loc[p])
            /\ UNCHANGED otpCodes
    /\ UNCHANGED <<fsVars, rtVars, pendingSubmissions, bankInterest, registry,
                   sideEffects, idVars, clientVars, faults>>

\* both modules, one call at a time
NextOtp ==
    \/ \E key \in OtpKeys : TenMinutesPass(key)
    \/ \E p \in One :
        \/ \E phone \in OtpPhones, otp \in OtpCodes : sendPasswordResetOTP_set(p, phone, otp)
        \/ sendPasswordResetOTP_sendSMS(p)
        \/ \E phone \in OtpPhones, otp \in OtpCodes : verifyOTP_get(p, phone, otp)
        \/ verifyOTP_delete(p)
        \/ verifyOTP_increment(p)
        \/ verifyOTP_use(p)
        \/ \E phone \in OtpPhones, otp \in OtpCodes :
              SmsJs_sendPasswordResetOTP_send(p, phone, otp)
        \/ SmsJs_sendPasswordResetOTP_set(p)
        \/ \E phone \in OtpPhones, otp \in OtpCodes : SmsJs_verifyOTP_get(p, phone, otp)
        \/ SmsJs_verifyOTP_update(p)

SpecOtp == Init /\ [][NextOtp]_vars

\* the phone of the concurrent verifications
OnePhone == {<<"0", "7", "1", "1", "2", "3", "4", "5", "6", "7">>}

\* part_001 alone, two callers
NextOtpRace ==
    \/ \E key \in OtpKeys : TenMinutesPass(key)
    \/ \E p \in Procs :
        \/ \E phone \in OnePhone, otp \in OtpCodes : sendPasswordResetOTP_set(p, phone, otp)
        \/ sendPasswordResetOTP_sendSMS(p)
        \/ \E phone \in OnePhone, otp \in OtpCodes : verifyOTP_get(p, phone, otp)
        \/ verifyOTP_delete(p)
        \/ verifyOTP_increment(p)
        \/ verifyOTP_use(p)

SpecOtpRace == Init /\ [][NextOtpRace]_vars

\* ======================================================================
\* Forgot-password flow (src/js/auth.js)
\* ======================================================================

\* everything but the modal
notFlow ==
    <<fsVars, rtVars, pendingSubmissions, pc, loc, last, oks, faults, bankInterest,
      registry, sideEffects, otpVars, idVars, session, upload>>

\* Utils.isValidPhone: the phones of the model stand for 10-digit numbers, the
\* empty field is refused
isValidPhone(phone) == phone # ""

\* the code the SMS module issues for a phone: it reaches that phone only
CodeOf(phone) == [sentTo |-> phone]

\* what the person at the keyboard can type as a code: the code sent to their
\* own phone, or a guess
OwnPhones == {"0711"}
TypedCodes == {CodeOf(phone) : phone \in OwnPhones} \cup {CodeOf("nobody")}

\* typing in the phone field of step 1
TypePhone(phone) ==
    /\ flow.step1
    /\ flow' = [flow EXCEPT !.phoneInput = phone]
    /\ UNCHANGED notFlow

\* handleSendOTP up to getMemberByPhone; it is bound to the button of step 1
\* and to the resend link of step 2
handleSendOTP_click(via) ==
    /\ IF via = "button" THEN flow.step1 /\ flow.sendOTPBtn = "enabled" ELSE flow.step2
    /\ flow.handleSendOTP[via].at = "idle"
    /\ isValidPhone(flow.phoneInput)
    /\ flow' = [flow EXCEPT !.sendOTPBtn = "disabled",
                            !.handleSendOTP[via] =
                                [at |-> "getMemberByPhone", phone |-> flow.phoneInput]]
    /\ UNCHANGED notFlow

\* getMemberByPhone has returned: resetPhone and resetMemberId are assigned
handleSendOTP_member(via) ==
    /\ flow.handleSendOTP[via].at = "getMemberByPhone"
    /\ LET phone == flow.handleSendOTP[via].phone
           member == getMemberByPhone(phone)
       IN flow' = IF member = NoMember
                  THEN [flow EXCEPT !.sendOTPBtn = "enabled",
                                    !.handleSendOTP[via] = NoFlow.handleSendOTP[via]]
                  ELSE [flow EXCEPT !.resetPhone = phone,
                                    !.resetMemberId = member,
                                    !.handleSendOTP[via].at = "sendPasswordResetOTP"]
    /\ UNCHANGED notFlow

\* SMS.sendPasswordResetOTP has returned: step 2 is shown when it succeeded
handleSendOTP_sent(via) ==
    /\ flow.handleSendOTP[via].at = "sendPasswordResetOTP"
    /\ LET phone == flow.handleSendOTP[via].phone
           done == [flow EXCEPT !.sendOTPBtn = "enabled",
                                !.handleSendOTP[via] = NoFlow.handleSendOTP[via]]
       IN \/ flow' = [done EXCEPT !.codes[phone] = CodeOf(phone),
                                  !.step1 = FALSE, !.step2 = TRUE]
          \/ flow' = done
    /\ UNCHANGED notFlow

\* handleVerifyOTP up to SMS.verifyOTP(resetPhone, otp)
handleVerifyOTP_click(otp) ==
    /\ flow.step2 /\ flow.verifyOTPBtn = "enabled"
    /\ flow.handleVerifyOTP.at = "idle"
    /\ flow' = [flow EXCEPT !.verifyOTPBtn = "disabled",
                            !.handleVerifyOTP =
                                [at |-> "verifyOTP", phone |-> flow.resetPhone,
                                 otp |-> otp]]
    /\ UNCHANGED notFlow

\* SMS.verifyOTP has returned: step 3 is shown when it returned true
handleVerifyOTP_returned ==
    /\ flow.handleVerifyOTP.at = "verifyOTP"
    /\ LET h == flow.handleVerifyOTP
           isValidCode == h.phone \in Phones /\ flow.codes[h.phone] = h.otp
           done == [flow EXCEPT !.verifyOTPBtn = "enabled",
                                !.handleVerifyOTP = NoFlow.handleVerifyOTP]
       IN flow' = IF isValidCode
                  THEN [done EXCEPT !.codes[h.phone] = NoCode,
                                    !.step2 = FALSE, !.step3 = TRUE,
                                    !.verified = @ \cup {h.phone}]
                  ELSE done
    /\ UNCHANGED notFlow

\* handleResetPassword up to Database.updatePassword(resetMemberId, newPassword)
handleResetPassword_click ==
    /\ flow.step3 /\ flow.resetPasswordBtn = "enabled"
    /\ flow.handleResetPassword.at = "idle"
    /\ flow.resetMemberId # ""
    /\ flow' = [flow EXCEPT
                  !.resetPasswordBtn = "disabled",
                  !.handleResetPassword =
                      [at |-> "updatePassword", memberId |-> flow.resetMemberId],
                  !.updatePassword = @ \cup
                      {[memberId |-> flow.resetMemberId,
                        verified |-> PhoneOf(flow.resetMemberId) \in flow.verified]}]
    /\ UNCHANGED notFlow

\* resetForgotPasswordModal: step 1 again, the fields and the two variables
\* cleared; the flow is over
resetForgotPasswordModal(f) ==
    [f EXCEPT !.step1 = TRUE, !.step2 = FALSE, !.step3 = FALSE,
              !.phoneInput = "", !.resetPhone = "", !.resetMemberId = "",
              !.verified = {}]

\* Database.updatePassword has returned, or thrown
handleResetPassword_returned ==
    /\ flow.handleResetPassword.at = "updatePassword"
    /\ LET done == [flow EXCEPT !.resetPasswordBtn = "enabled",
                                !.handleResetPassword = NoFlow.handleResetPassword]
       IN \/ flow' = resetForgotPasswordModal(done)
          \/ flow' = done
    /\ UNCHANGED notFlow

\* the close button of the modal
closeForgotModal ==
    /\ flow' = resetForgotPasswordModal(flow)
    /\ flow' # flow
    /\ UNCHANGED notFlow

NextFlow ==
    \/ \E phone \in Phones : TypePhone(phone)
    \/ \E via \in {"button", "link"} : handleSendOTP_click(via)
    \/ \E via \in {"button", "link"} : handleSendOTP_member(via)
    \/ \E via \in {"button", "link"} : handleSendOTP_sent(via)
    \/ \E otp \in TypedCodes : handleVerifyOTP_click(otp)
    \/ handleVerifyOTP_returned
    \/ handleResetPassword_click
    \/ handleResetPassword_returned
    \/ closeForgotModal

SpecFlow == Init /\ [][NextFlow]_vars

\* ======================================================================
\* Sessions (src/js/auth.js)
\* ======================================================================

MaxTicks == 4

\* how far the clock moves between two calls: a millisecond, or one of the two
\* durations
Delays == {1, MEMBER_SESSION_DURATION, ADMIN_SESSION_DURATION}

\* everything but the sessions
notSession ==
    <<fsVars, rtVars, pendingSubmissions, pc, loc, last, oks, faults, bankInterest,
      registry, sideEffects, otpVars, idVars, flow, upload>>

\* time passes; what the last call returned is consumed
TimePasses(delay) ==
    /\ session.ticks < MaxTicks
    /\ session' = [session EXCEPT !.now = @ + delay, !.ticks = @ + 1,
                                  !.returned = LoggedOut.returned]
    /\ UNCHANGED notSession

SessionNeverExpires(now, s, duration) == FALSE

\* now - session.timestamp > this.<KIND>_SESSION_DURATION
SessionExpired(now, s, duration) == now - s.timestamp > duration

\* the body shared by getMemberSession, getAdminSession and checkAdminSession:
\* the session to return and the storage left behind
ReadSession(kind, duration) ==
    LET s == session.storage[kind]
    IN IF ~s.present
       THEN [session |-> NoSession, expired |-> FALSE, storage |-> session.storage]
       ELSE IF SessionExpired(session.now, s, duration)
       THEN [session |-> NoSession, expired |-> TRUE,
             storage |-> [session.storage EXCEPT ![kind] = NoSession]]
       ELSE [session |-> s, expired |-> FALSE, storage |-> session.storage]

Returned(call, read) ==
    [call |-> call, session |-> read.session, valid |-> read.session.present,
     expired |-> read.expired]

getMemberSession ==
    /\ LET read == ReadSession("member", MEMBER_SESSION_DURATION)
       IN session' = [session EXCEPT !.storage = read.storage,
                                     !.returned = Returned("getMemberSession", read)]
    /\ UNCHANGED notSession

setMemberSession ==
    /\ session' = [session EXCEPT
                     !.storage.member = [present |-> TRUE, timestamp |-> session.now],
                     !.returned = [LoggedOut.returned EXCEPT !.call = "setMemberSession"]]
    /\ UNCHANGED notSession

\* getMemberSession, then the new timestamp when it returned a session
extendMemberSession ==
    /\ LET read == ReadSession("member", MEMBER_SESSION_DURATION)
       IN session' = [session EXCEPT
                        !.storage = IF read.session.present
                                    THEN [read.storage EXCEPT
                                            !.member.timestamp = session.now]
                                    ELSE read.storage,
                        !.returned = Returned("extendMemberSession", read)]
    /\ UNCHANGED notSession

clearMemberSession ==
    /\ session.storage.member.present
    /\ session' = [session EXCEPT
                     !.storage.member = NoSession,
                     !.returned = [LoggedOut.returned EXCEPT !.call = "clearMemberSession"]]
    /\ UNCHANGED notSession

checkAdminSession ==
    /\ LET read == ReadSession("admin", ADMIN_SESSION_DURATION)
       IN session' = [session EXCEPT
                        !.storage = read.storage,
                        !.returned = [Returned("checkAdminSession", read)
                                         EXCEPT !.session = NoSession]]
    /\ UNCHANGED notSession

setAdminSession ==
    /\ session' = [session EXCEPT
                     !.storage.admin = [present |-> TRUE, timestamp |-> session.now],
                     !.returned = [LoggedOut.returned EXCEPT !.call = "setAdminSession"]]
    /\ UNCHANGED notSession

getAdminSession ==
    /\ LET read == ReadSession("admin", ADMIN_SESSION_DURATION)
       IN session' = [session EXCEPT !.storage = read.storage,
                                     !.returned = Returned("getAdminSession", read)]
    /\ UNCHANGED notSession

clearAdminSession ==
    /\ session.storage.admin.present
    /\ session' = [session EXCEPT
                     !.storage.admin = NoSession,
                     !.returned = [LoggedOut.returned EXCEPT !.call = "clearAdminSession"]]
    /\ UNCHANGED notSession

NextSession ==
    \/ \E delay \in Delays : TimePasses(delay)
    \/ getMemberSession
    \/ setMemberSession
    \/ extendMemberSession
    \/ clearMemberSession
    \/ checkAdminSession
    \/ setAdminSession
    \/ getAdminSession
    \/ clearAdminSession

SpecSession == Init /\ [][NextSession]_vars

\* ======================================================================
\* Proof upload (src/js/storage.js)
\* ======================================================================

ALLOWED_TYPES == {"image/jpeg", "image/jpg", "image/png", "image/gif", "image/webp",
                  "image/heic", "image/heif", "application/pdf"}
ALLOWED_EXTENSIONS == {".jpg", ".jpeg", ".png", ".gif", ".webp", ".heic", ".heif",
                       ".pdf"}

\* the files offered: empty, small and oversized ones, of allowed and other
\* types, with a MIME type or without
Files ==
    [size : {512, 2048, MAX_FILE_SIZE + 1},
     type : {"application/pdf", "image/jpeg", "text/plain", ""},
     extension : {".pdf", ".jpg", ".txt"}]

\* base64.length of what fileToBase64 returns
Lengths == {1024, MAX_BASE64_SIZE, MAX_BASE64_SIZE + 1}

\* everything but the upload
notUpload ==
    <<fsVars, rtVars, pendingSubmissions, pc, loc, last, oks, faults, bankInterest,
      registry, sideEffects, otpVars, idVars, flow, session>>

validateFile(file) ==
    /\ file.size <= MAX_FILE_SIZE
    /\ file.size >= 1024
    /\ file.type # "" => file.type \in ALLOWED_TYPES
    /\ file.type = "" => file.extension \in ALLOWED_EXTENSIONS

isPDF(file) == file.type = "application/pdf" \/ file.extension = ".pdf"

FitsAlways(length) == TRUE

\* base64.length <= this.MAX_BASE64_SIZE
Fits(length) == length <= MAX_BASE64_SIZE

Thrown(u) == [u EXCEPT !.at = "idle", !.outcome = [kind |-> "thrown", length |-> 0]]
Return(u, length) ==
    [u EXCEPT !.at = "idle", !.outcome = [kind |-> "returned", length |-> length]]

\* while (attempt < maxAttempts), and the throw after the loop
LoopOrThrow(u) == IF u.attempt < maxAttempts THEN u ELSE Thrown(u)

\* uploadProof up to its first await
uploadProof_validate(file) ==
    /\ upload.at = "idle"
    /\ LET u == [NoUpload EXCEPT !.file = file]
       IN upload' = IF ~validateFile(file) THEN Thrown(u)
                    ELSE IF isPDF(file) THEN [u EXCEPT !.at = "fileToBase64"]
                    ELSE [u EXCEPT !.at = "compressImage"]
    /\ UNCHANGED notUpload

\* the PDF branch: fileToBase64 has settled
uploadProof_pdf ==
    /\ upload.at = "fileToBase64"
    /\ \/ upload' = Thrown(upload)
       \/ \E length \in Lengths :
            upload' = IF length > MAX_BASE64_SIZE THEN Thrown(upload)
                      ELSE Return(upload, length)
    /\ UNCHANGED notUpload

\* quality -= 0.15
LowerQuality(q) ==
    [hundredths |-> q.hundredths - 15, above |-> q.hundredths - 15 = 30]

\* quality > 0.3
AboveMinimumQuality(q) == q.hundredths > 30 \/ (q.hundredths = 30 /\ q.above)

\* Math.round(maxWidth * 0.7)
SeventyPercent(maxWidth) == (maxWidth * 7 + 5) \div 10

\* one turn of the loop: compressImage and fileToBase64 have settled
uploadProof_compressImage ==
    /\ upload.at = "compressImage"
    /\ LET u == [upload EXCEPT !.attempt = @ + 1, !.compressions = @ + 1]
       IN \/ upload' = LoopOrThrow(
                          [u EXCEPT !.quality = Quality(Max(30, @.hundredths - 20)),
                                    !.maxWidth = Max(MIN_WIDTH, @ - 200)])
          \/ \E length \in Lengths :
               upload' =
                   IF Fits(length) THEN Return(u, length)
                   ELSE IF AboveMinimumQuality(u.quality)
                   THEN LoopOrThrow([u EXCEPT !.quality = LowerQuality(@)])
                   ELSE IF u.maxWidth > MIN_WIDTH
                   THEN LoopOrThrow(
                            [u EXCEPT !.maxWidth = Max(MIN_WIDTH, SeventyPercent(@)),
                                      !.quality = Quality(60)])
                   ELSE Thrown(u)
    /\ UNCHANGED notUpload

NextUpload ==
    \/ \E file \in Files : uploadProof_validate(file)
    \/ uploadProof_pdf
    \/ uploadProof_compressImage

\* a promise that is awaited settles
SpecUpload ==
    /\ Init /\ [][NextUpload]_vars
    /\ WF_vars(uploadProof_pdf) /\ WF_vars(uploadProof_compressImage)

\* ======================================================================
\* National ID validators (src/unnamed/part_002, part_007, part_006)
\* ======================================================================
SampleId == <<"8", "0", "0", "1", "0", "1", "5", "0", "0", "9", "0", "8", "7">>

\* the sample with one digit changed
OneDigitChanged ==
    {[SampleId EXCEPT ![i] = d] : i \in 1..13, d \in Digits} \ {SampleId}

\* other strings: the sample with a space, with a dash, without its last digit,
\* with a letter; month 00, month 13 and day 32 with a sum divisible by 10
OtherIds ==
    {<<"8", "0", "0", "1", "0", "1", " ", "5", "0", "0", "9", "0", "8", "7">>,
     <<"8", "0", "0", "1", "0", "1", "-", "5", "0", "0", "9", "0", "8", "7">>,
     <<"8", "0", "0", "1", "0", "1", "5", "0", "0", "9", "0", "8">>,
     <<"8", "0", "0", "1", "0", "1", "5", "0", "0", "9", "0", "8", "x">>,
     <<"8", "0", "0", "0", "0", "1", "5", "0", "0", "9", "0", "8", "9">>,
     <<"8", "0", "1", "3", "0", "1", "5", "0", "0", "9", "0", "8", "2">>,
     <<"8", "0", "0", "1", "3", "2", "5", "0", "0", "9", "0", "8", "2">>,
     <<>>}

IdInputs == {SampleId} \cup OneDigitChanged \cup OtherIds

\* /^\d{13}$/.test(id)
ThirteenDigits(id) == Len(id) = 13 /\ \A i \in 1..13 : id[i] \in Digits

RECURSIVE LuhnSumFrom(_, _)
\* the loop over i = 0..12 (i is the 0-based index): digits at odd i doubled,
\* minus 9 when the double exceeds 9
LuhnSumFrom(id, i) ==
    IF i > 12 THEN 0
    ELSE LET digit == DigitVal(id[i + 1])
             doubled == IF digit * 2 > 9 THEN digit * 2 - 9 ELSE digit * 2
         IN (IF i % 2 = 1 THEN doubled ELSE digit) + LuhnSumFrom(id, i + 1)

\* part_007 validateSAIdNumber(idNumber)
validateSAIdNumber(idNumber) ==
    IF ~ThirteenDigits(idNumber) THEN FALSE
    ELSE LET month == parseInt(SubSeq(idNumber, 3, 4))
             day == parseInt(SubSeq(idNumber, 5, 6))
         IN IF month < 1 \/ month > 12 THEN FALSE
            ELSE IF day < 1 \/ day > 31 THEN FALSE
            ELSE LuhnSumFrom(idNumber, 0) % 10 = 0

\* part_002 Utils.validateSAId(idNumber).valid: spaces and dashes are removed
\* before the same checks
validateSAId(idNumber) ==
    IF idNumber = <<>> THEN FALSE
    ELSE LET id == SelectSeq(idNumber, LAMBDA c : c \notin {" ", "-"})
         IN IF ~ThirteenDigits(id) THEN FALSE
            ELSE LET month == parseInt(SubSeq(id, 3, 4))
                     day == parseInt(SubSeq(id, 5, 6))
                 IN IF month < 1 \/ month > 12 THEN FALSE
                    ELSE IF day < 1 \/ day > 31 THEN FALSE
                    ELSE LuhnSumFrom(id, 0) % 10 = 0

\* part_006 SAFinance.validateSAID(idNumber): the digits and the sum only
validateSAID(idNumber) ==
    IF ~ThirteenDigits(idNumber) THEN FALSE
    ELSE LuhnSumFrom(idNumber, 0) % 10 = 0

Verdict(valid) == IF valid THEN "valid" ELSE "invalid"

\* the registration form calls validateSAIdNumber with the string
Registration_validateSAIdNumber ==
    /\ idResult.Registration = "none"
    /\ idResult' = [idResult EXCEPT
                      !.Registration = Verdict(validateSAIdNumber(idInput))]
    /\ UNCHANGED <<fsVars, rtVars, pendingSubmissions, bankInterest, registry,
                   sideEffects, otpVars, clientVars, idInput, pc, loc, last, oks, faults>>

\* Utils.validateSAId is called with the string
Utils_validateSAId ==
    /\ idResult.Utils = "none"
    /\ idResult' = [idResult EXCEPT !.Utils = Verdict(validateSAId(idInput))]
    /\ UNCHANGED <<fsVars, rtVars, pendingSubmissions, bankInterest, registry,
                   sideEffects, otpVars, clientVars, idInput, pc, loc, last, oks, faults>>

\* SAFinance.validateSAID is called with the string
SAFinance_validateSAID ==
    /\ idResult.SAFinance = "none"
    /\ idResult' = [idResult EXCEPT !.SAFinance = Verdict(validateSAID(idInput))]
    /\ UNCHANGED <<fsVars, rtVars, pendingSubmissions, bankInterest, registry,
                   sideEffects, otpVars, clientVars, idInput, pc, loc, last, oks, faults>>

InitValidators ==
    /\ InitStores /\ faults = 0 /\ sideEffects = Succeed /\ idInput \in IdInputs
    /\ ClientIdle

NextValidators ==
    \/ Utils_validateSAId
    \/ Registration_validateSAIdNumber
    \/ SAFinance_validateSAID

SpecValidators == InitValidators /\ [][NextValidators]_vars

\* ======================================================================
\* submitPOP of both modules with any amount typed
\* ======================================================================
NextAmount ==
    \E p \in One :
        \/ submitPOP_add(p, SomePhones, LateDays, AnyAmounts)
        \/ submitPOP_member(p)
        \/ submitPOP_rtTotals(p)
        \/ submitPOP_rtMember(p)
        \/ FS_submitPOP_add(p, SomePhones, Labels, AnyAmounts)
        \/ FS_submitPOP_member(p)

SpecAmount == Init /\ [][NextAmount]_vars

\* ======================================================================
\* Properties
\* ======================================================================

\* no submit / approve / reject / recalculate call is in progress
Quiescent == \A p \in Procs : pc[p] = "idle"

\* the member's submissions in one status
InStatus(m, status) ==
    {s \in SubIds : /\ submissions[s].exists
                    /\ submissions[s].memberId = m
                    /\ submissions[s].status = status}

RECURSIVE Total(_, _)
\* the sum of one field over a set of stored submissions
Total(ids, field) ==
    IF ids = {} THEN 0
    ELSE LET s == CHOOSE x \in ids : TRUE
         IN submissions[s][field] + Total(ids \ {s}, field)

\* totalSavings, totalFines, verifiedCount and pendingCount of a member record
Aggregates(r) == <<r.totalSavings, r.totalFines, r.verifiedCount, r.pendingCount>>

\* C1: whenever no call is in progress, every member's totalSavings is the sum
\* of amount over the member's verified submissions and totalFines the sum of
\* their fineAmount.
C1_TotalsMatchVerified ==
    Quiescent =>
        \A m \in Members :
            /\ members[m].totalSavings = Total(InStatus(m, "verified"), "amount")
            /\ members[m].totalFines = Total(InStatus(m, "verified"), "fineAmount")

\* C2: whenever no call is in progress, every member's submissionCount equals
\* verifiedCount + pendingCount + rejectedCount.
C2_CountsAddUp ==
    Quiescent =>
        \A m \in Members :
            members[m].submissionCount =
                members[m].verifiedCount + members[m].pendingCount
                    + members[m].rejectedCount

\* no rejection has returned normally
NoneRejected == \A s \in SubIds : oks[s].reject = 0

\* C3: of the approvals of one submission at most one returns normally, and once
\* all calls have returned (none of them a rejection) the member's verifiedCount
\* counts each verified submission once and the cached global
\* approvedSubmissions counts each approved submission once.
C3_ApprovedOnce ==
    /\ \A s \in SubIds : oks[s].approve <= 1
    /\ (Quiescent /\ NoneRejected) =>
          /\ \A m \in Members :
                members[m].verifiedCount = Cardinality(InStatus(m, "verified"))
          /\ rtTotals.approvedSubmissions =
                Cardinality({s \in SubIds : submissions[s].status = "verified"})

\* C4: an approval or rejection of a submission that is already verified or
\* rejected does not return normally (it fails, and therefore changes nothing).
C4_ProcessedIsRefused ==
    (/\ last.op \in {"approve", "reject"}
     /\ last.was \in {"verified", "rejected"})
        => last.res # "ok"

\* no submission has been approved twice or rejected twice
NoneRepeated == \A s \in SubIds : oks[s].approve <= 1 /\ oks[s].reject <= 1

\* C5: an approval and a rejection of one submission never both return normally,
\* and once all calls have returned (none of them a second approval or a second
\* rejection) the member's verifiedCount and rejectedCount count the
\* submissions that have that status.
C5_OneDecisionWins ==
    /\ \A s \in SubIds : ~(oks[s].approve >= 1 /\ oks[s].reject >= 1)
    /\ (Quiescent /\ NoneRepeated) =>
          \A m \in Members :
              /\ members[m].verifiedCount = Cardinality(InStatus(m, "verified"))
              /\ members[m].rejectedCount = Cardinality(InStatus(m, "rejected"))

\* no submission has been approved or rejected more than once
DecidedOnce == \A s \in SubIds : oks[s].approve + oks[s].reject <= 1

\* C6: when different submissions of one member have each been approved once,
\* concurrently or not, then after the calls have returned the member's
\* totalSavings is the sum of their amounts and verifiedCount their number, in
\* the member record and in the cache.
C6_NoLostApproval ==
    (Quiescent /\ DecidedOnce) =>
        \A m \in Members :
            LET verified == InStatus(m, "verified")
            IN /\ members[m].totalSavings = Total(verified, "amount")
               /\ members[m].totalFines = Total(verified, "fineAmount")
               /\ members[m].verifiedCount = Cardinality(verified)
               /\ rtMembers[m].totalSavings = Total(verified, "amount")
               /\ rtMembers[m].verifiedCount = Cardinality(verified)

\* C7: an approval that reports failure never leaves a submission that was
\* pending with status verified while the linked member's totalSavings,
\* totalFines, verifiedCount and pendingCount are as they were before the call,
\* and never leaves it pending with those aggregates changed.
C7_AllOrNothing ==
    (/\ last.op = "approve" /\ last.res = "failed"
     /\ last.was = "pending"
     /\ last.memberId # NoMember)
        => (submissions[last.sid].status = "verified")
             = (Aggregates(members[last.memberId]) # Aggregates(last.member))

\* C8: whenever no call is in progress, and no submission has been approved or
\* rejected more than once, every member's qualifiesForInterest is true exactly
\* when totalSavings >= 10000.
C8_QualifiesIffThreshold ==
    (Quiescent /\ DecidedOnce) =>
        \A m \in Members :
            members[m].qualifiesForInterest = (members[m].totalSavings >= 10000)

\* C9: after recalculateMemberStats(memberId) has returned, with no other call
\* running, the member record holds totalSavings and totalFines summed over the
\* member's verified submissions, the number of the member's submissions in each
\* status, submissionCount = the number of submissions examined and
\* qualifiesForInterest = (totalSavings >= 10000), whatever it held before.
C9_RecalculateOverwrites ==
    (last.op = "recalculate" /\ last.res = "ok") =>
        LET m == last.memberId
            r == members[m]
            verified == InStatus(m, "verified")
        IN /\ r.totalSavings = Total(verified, "amount")
           /\ r.totalFines = Total(verified, "fineAmount")
           /\ r.verifiedCount = Cardinality(verified)
           /\ r.pendingCount = Cardinality(InStatus(m, "pending"))
           /\ r.rejectedCount = Cardinality(InStatus(m, "rejected"))
           /\ r.submissionCount =
                Cardinality({s \in SubIds : /\ submissions[s].exists
                                            /\ submissions[s].memberId = m})
           /\ r.qualifiesForInterest = (r.totalSavings >= 10000)

\* a recalculation has returned for a member whose stored counts and sums were
\* wrong before it and who has a verified and another submission
C9_Witness ==
    /\ last.op = "recalculate" /\ last.res = "ok"
    /\ last.member.submissionCount # last.stats.submissionCount
    /\ last.member.totalSavings # last.stats.totalSavings
    /\ last.stats.verifiedCount > 0
    /\ last.stats.submissionCount > last.stats.verifiedCount

StoredStats(m) ==
    [totalSavings |-> members[m].totalSavings,
     totalFines |-> members[m].totalFines,
     submissionCount |-> members[m].submissionCount,
     verifiedCount |-> members[m].verifiedCount,
     pendingCount |-> members[m].pendingCount,
     rejectedCount |-> members[m].rejectedCount,
     qualifiesForInterest |-> members[m].qualifiesForInterest]

\* C11: a bulk recalculation in which the recalculation of one member fails
\* still returns normally, with every other member's record holding the
\* recalculated aggregates.
C11_BulkContinues ==
    (last.op = "recalculateAll" /\ last.memberId \in Members) =>
        /\ last.res = "ok"
        /\ \A m \in Members \ {last.memberId} :
              StoredStats(m) = RecalculatedStats(submissions, m)

\* the positions of a label where four digits in a row start
YearStarts(label) ==
    {i \in 1..Len(label) : /\ i + 3 <= Len(label)
                           /\ \A k \in 0..3 : label[i + k] \in Digits}

\* the 4-digit year a label contains (its first), the current year when none
YearIn(label) ==
    IF YearStarts(label) = {} THEN CurrentYear
    ELSE LET i == CHOOSE x \in YearStarts(label) : \A y \in YearStarts(label) : x <= y
         IN 1000 * DigitVal(label[i]) + 100 * DigitVal(label[i + 1])
              + 10 * DigitVal(label[i + 2]) + DigitVal(label[i + 3])

\* the verified submissions whose label belongs to the year
VerifiedIn(year) ==
    {s \in SubIds : /\ submissions[s].exists
                    /\ submissions[s].status = "verified"
                    /\ YearIn(submissions[s].paymentMonth) = year}

\* C12: whenever no call is in progress, the interest pool of every year holds
\* the sum of fineAmount over the verified submissions whose payment-period
\* label contains that year (the current year for a label with no year).
C12_PoolMatchesFines ==
    Quiescent =>
        \A y \in Years : interestPool[y] = Total(VerifiedIn(y), "fineAmount")

\* C13: every stored submission has isLate true and fineAmount 50 (the
\* configured late fee) exactly when its payment date's day-of-month is greater
\* than the deadline day 7, and isLate false and fineAmount 0 otherwise.
C13_LateExactlyAfterDeadline ==
    \A s \in SubIds :
        submissions[s].exists =>
            /\ submissions[s].isLate = (submissions[s].paymentDate > 7)
            /\ submissions[s].fineAmount =
                  (IF submissions[s].paymentDate > 7 THEN 50 ELSE 0)

\* the members with status active and totalSavings >= 10000
Qualifying ==
    {m \in Members : members[m].status = "active" /\ members[m].totalSavings >= 10000}

\* C14: calculateInterestDistribution(year) returns a share s with
\* s * n <= totalFines + bankInterest < (s + 1) * n for the n > 0 members that
\* are active with totalSavings >= 10000, gives that share to each of them and
\* to no one else, and returns share 0 when n = 0.
C14_EqualFlooredShares ==
    (last.op = "distribution" /\ last.res = "ok") =>
        LET d == last.distribution
            n == Cardinality(Qualifying)
            total == interestPool[d.year] + bankInterest[d.year]
        IN /\ DOMAIN d.shareAmount = Qualifying
           /\ \A m \in Qualifying : d.shareAmount[m] = d.perMemberAmount
           /\ n = 0 => d.perMemberAmount = 0
           /\ n > 0 => /\ d.perMemberAmount * n <= total
                       /\ total < (d.perMemberAmount + 1) * n

\* a distribution has been returned for two qualifying members and a pool of
\* fines and bank interest that does not divide evenly
C14_Witness ==
    /\ last.op = "distribution" /\ last.res = "ok"
    /\ Cardinality(DOMAIN last.distribution.shareAmount) = 2
    /\ interestPool[last.distribution.year] > 0
    /\ bankInterest[last.distribution.year] > 0
    /\ last.distribution.perMemberAmount * 2 < last.distribution.totalPool

\* a distribution has been returned with a pool to share and nobody qualifying
C14_WitnessNone ==
    /\ last.op = "distribution" /\ last.res = "ok"
    /\ DOMAIN last.distribution.shareAmount = {}
    /\ last.distribution.totalPool > 0

\* the documents of the members collection that have been added
Registered == {i \in RegIds : registry[i].exists}

\* C15: no two member documents carry the same member reference.
C15_ReferencesUnique ==
    \A i, j \in Registered : i # j => registry[i].memberRef # registry[j].memberRef

\* C16: no two member documents share a phone and no two share a national ID
\* number.
C16_NoSharedIdentity ==
    \A i, j \in Registered :
        i # j => /\ registry[i].phone # registry[j].phone
                 /\ registry[i].idNumber # "undefined"
                      => registry[i].idNumber # registry[j].idNumber

\* the status an operation leaves its submission in
StatusAfter(op) ==
    CASE op = "submit" -> "pending"
      [] op = "approve" -> "verified"
      [] op = "reject" -> "rejected"

\* C17: while no store call of the ledger has thrown, a submitPOP,
\* approveSubmission or rejectSubmission call never fails, whether the audit
\* log is written or not and whether the SMS is sent, fails or has no module;
\* and a call that returned left its submission in the status of the operation.
C17_SideEffectsNeverAbort ==
    last.op \in {"submit", "approve", "reject"} =>
        /\ faults = MaxFail => last.res # "failed"
        /\ last.res = "ok" =>
              /\ submissions[last.sid].exists
              /\ submissions[last.sid].status = StatusAfter(last.op)

\* an approval has returned although the audit-log write failed and there is
\* no SMS module, and the submission is verified
C17_Witness ==
    /\ last.op = "approve" /\ last.res = "ok"
    /\ sideEffects = [audit |-> "fails", sms |-> "absent"]
    /\ submissions[last.sid].status = "verified"

\* C18: a verifyOTP call made when three calls with a wrong code have been
\* refused since the code was stored, none having been accepted before them,
\* returns false, and the document of the
\* phone is deleted when it returns.
C18_ExhaustedAfterThree ==
    (last.op = "verifyOTP" /\ last.count >= MaxAttempts) =>
        (last.res = "false" /\ ~otpCodes[last.key].exists)

\* C19: a verifyOTP call made with the code an earlier call accepted, no code
\* having been stored since, returns false.
C19_UsedNeverVerifiesAgain ==
    (last.op = "verifyOTP" /\ last.again) => last.res = "false"

\* a code has been verified and a later call with the same code is refused
C19_Witness ==
    /\ last.op = "verifyOTP" /\ last.again /\ last.res = "false"
    /\ otpCodes[last.key].exists /\ otpCodes[last.key].used
    /\ otpCodes[last.key].otp = last.otp
    /\ ~otpCodes[last.key].expired

\* the Luhn-style sum of a string of 13 digits, position by position
DoubledDigit == [d \in 0..9 |-> IF 2 * d > 9 THEN 2 * d - 9 ELSE 2 * d]
StatedSum(id) ==
    DigitVal(id[1]) + DoubledDigit[DigitVal(id[2])] + DigitVal(id[3])
      + DoubledDigit[DigitVal(id[4])] + DigitVal(id[5]) + DoubledDigit[DigitVal(id[6])]
      + DigitVal(id[7]) + DoubledDigit[DigitVal(id[8])] + DigitVal(id[9])
      + DoubledDigit[DigitVal(id[10])] + DigitVal(id[11])
      + DoubledDigit[DigitVal(id[12])] + DigitVal(id[13])

\* 13 digits, month 1..12, day 1..31, sum divisible by 10
WellFormedId(id) ==
    /\ Len(id) = 13
    /\ \A i \in 1..13 : id[i] \in Digits
    /\ 10 * DigitVal(id[3]) + DigitVal(id[4]) \in 1..12
    /\ 10 * DigitVal(id[5]) + DigitVal(id[6]) \in 1..31
    /\ StatedSum(id) % 10 = 0

\* C20: every validator that has been called returned valid exactly when the
\* string is 13 digits with month 1..12, day 1..31 and a sum divisible by 10;
\* 8001015009087 is valid and the strings that differ from it in one digit are
\* not.
C20_ValidatorsAcceptExactlyWellFormed ==
    \A validator \in DOMAIN idResult :
        idResult[validator] # "none" =>
            /\ idResult[validator] = "valid" <=> WellFormedId(idInput)
            /\ idInput = SampleId => idResult[validator] = "valid"
            /\ idInput \in OneDigitChanged => idResult[validator] = "invalid"

\* C21: the step of submitPOP that writes the member record, when it does not
\* throw, adds exactly 1 to submissionCount and to pendingCount of the member
\* the phone matched and changes nothing else in any member record; with no
\* member matched it changes no member record; the submission it belongs to
\* is pending and carries that link.
C21_SubmitCountsOnce ==
    [][\A p \in Procs :
         (/\ pc[p] \in {"sp_member", "fsp_member"}
          /\ pc'[p] # pc[p]
          /\ last'.res # "failed")
         => LET m == loc[p].memberId
                s == submissions[loc[p].sid]
            IN /\ s.exists /\ s.status = "pending" /\ s.memberId = m
               /\ members' = IF m = NoMember THEN members
                             ELSE [members EXCEPT ![m].submissionCount = @ + 1,
                                                  ![m].pendingCount = @ + 1]]_vars

\* C22: no submission record holds an amount that is not greater than 0, and
\* submitPOP refuses an amount as invalid only when it is not greater than 0.
C22_OnlyPositiveAmounts ==
    /\ \A s \in SubIds : submissions[s].exists => submissions[s].amount > 0
    /\ (last.op = "submit" /\ last.res = "invalid") => ~(last.amount > 0)

\* C23: the write that takes a pending submission to rejected takes 1 from the
\* pendingCount and adds 1 to the rejectedCount of the member it is linked to,
\* in the same step, and changes nothing else in any member record nor any
\* interest-pool record.
C23_RejectMovesCounters ==
    [][\A s \in SubIds :
         (submissions[s].status = "pending" /\ submissions'[s].status = "rejected")
         => LET m == submissions[s].memberId
            IN /\ members' = IF m = NoMember THEN members
                             ELSE [members EXCEPT ![m].pendingCount = @ - 1,
                                                  ![m].rejectedCount = @ + 1]
               /\ interestPool' = interestPool
               /\ bankInterest' = bankInterest
               /\ rtPool' = rtPool]_vars

\* C24: no member's pendingCount is negative, in the member record or in the
\* Realtime DB entry.
C24_PendingCountNeverNegative ==
    \A m \in Members : members[m].pendingCount >= 0 /\ rtMembers[m].pendingCount >= 0

\* C25: the memberId written on a submission by submitPOP is changed by no
\* later step (approveSubmission, rejectSubmission, member updates).
C25_LinkNeverChanges ==
    [][\A s \in SubIds :
         submissions[s].exists => submissions'[s].memberId = submissions[s].memberId]_vars

\* the fines held by the interest pool, all its year documents together
RECURSIVE PoolFines(_, _)
PoolFines(pool, years) ==
    IF years = {} THEN 0
    ELSE LET y == CHOOSE x \in years : TRUE
         IN pool[y] + PoolFines(pool, years \ {y})

\* C26: isLate and fineAmount of a stored submission never change, and the
\* step that approves a pending submission adds exactly its stored fineAmount
\* to the totalFines of its member and to the interest pool.
C26_FineFixedAtSubmit ==
    [][\A s \in SubIds :
         submissions[s].exists =>
            /\ submissions'[s].isLate = submissions[s].isLate
            /\ submissions'[s].fineAmount = submissions[s].fineAmount
            /\ (submissions[s].status = "pending" /\ submissions'[s].status = "verified")
                 => LET m == submissions[s].memberId
                        fineAmount == submissions[s].fineAmount
                    IN /\ m # NoMember =>
                             members'[m].totalFines = members[m].totalFines + fineAmount
                       /\ PoolFines(interestPool', Years)
                             = PoolFines(interestPool, Years) + fineAmount]_vars

\* the positions inside an approveSubmission call
ApprovePositions ==
    {"ap_getMember", "ap_commit", "ap_rtTotals", "ap_rtMember", "ap_rtPool",
     "fap_getMember", "fap_commit", "fap_notify", "aap_member", "aap_reload"}

\* C27: a step of approveSubmission(s) changes the record and the Realtime DB
\* entry of no member other than the one s is linked to, and of no member at
\* all when s is a guest submission.
C27_ApproveTouchesOnlyLinkedMember ==
    [][\A p \in Procs :
         (pc[p] \in ApprovePositions /\ pc'[p] # pc[p])
         => \A m \in Members :
               m # submissions[loc[p].sid].memberId
               => members'[m] = members[m] /\ rtMembers'[m] = rtMembers[m]]_vars

\* the fields of a member record that stokvel/members/{id} mirrors
Mirrored(r) ==
    [totalSavings |-> r.totalSavings, totalFines |-> r.totalFines,
     submissionCount |-> r.submissionCount, verifiedCount |-> r.verifiedCount,
     pendingCount |-> r.pendingCount,
     qualifiesForInterest |-> r.qualifiesForInterest]

\* C28: when calls are made one at a time and no store operation fails, then
\* after every submitPOP, approveSubmission and rejectSubmission each member's
\* Realtime DB entry equals the member record on totalSavings, totalFines,
\* submissionCount, verifiedCount, pendingCount and qualifiesForInterest.
C28_CacheMirrorsMember ==
    Quiescent => \A m \in Members : Mirrored(rtMembers[m]) = Mirrored(members[m])

\* a member with an approved and a rejected submission, all calls returned
C28_Witness ==
    /\ Quiescent
    /\ \E m \in Members :
          /\ members[m].verifiedCount = 1 /\ members[m].rejectedCount = 1
          /\ rtMembers[m].totalSavings > 0
          /\ rtMembers[m].submissionCount = 2

\* a field summed over the member records (getStokvelTotal of submit-pop.js)
RECURSIVE MemberTotal(_, _)
MemberTotal(ms, field) ==
    IF ms = {} THEN 0
    ELSE LET m == CHOOSE x \in ms : TRUE
         IN members[m][field] + MemberTotal(ms \ {m}, field)

\* C29: whenever no call is in progress, stokvel/totals holds as totalSavings
\* and totalFines the sums of totalSavings and totalFines over the member
\* records, guest submissions included.
C29_GlobalTotalsAgree ==
    Quiescent =>
        /\ rtTotals.totalSavings = MemberTotal(Members, "totalSavings")
        /\ rtTotals.totalFines = MemberTotal(Members, "totalFines")

\* C30: after recalculateMemberStats(memberId) has returned, the member's
\* Realtime DB entry holds the statistics it computed; after
\* syncDataToRealtimeDB has returned, every member's entry holds the values of
\* the member record, with the eligibility flag computed from its totalSavings.
C30_RepairOverwritesCache ==
    /\ (last.op = "recalculate" /\ last.res = "ok")
          => Mirrored(rtMembers[last.memberId]) = Mirrored(last.stats)
    /\ (last.op = "sync" /\ last.res = "ok")
          => \A m \in Members :
                rtMembers[m] = [Mirrored(members[m]) EXCEPT
                                  !.qualifiesForInterest =
                                      members[m].totalSavings >= 10000]

\* C31: when recalculateMemberStats(m) runs next to a submitPOP,
\* approveSubmission or rejectSubmission for member m and every submission is
\* decided at most once, then after all calls have returned m's totalSavings
\* and totalFines are the sums over m's verified submissions and its
\* verified, pending and rejected counts are the numbers of m's submissions in
\* each status.
C31_RecalculateKeepsConcurrentEffect ==
    (Quiescent /\ DecidedOnce) =>
        \A m \in Members :
            /\ members[m].totalSavings = Total(InStatus(m, "verified"), "amount")
            /\ members[m].totalFines = Total(InStatus(m, "verified"), "fineAmount")
            /\ members[m].verifiedCount = Cardinality(InStatus(m, "verified"))
            /\ members[m].pendingCount = Cardinality(InStatus(m, "pending"))
            /\ members[m].rejectedCount = Cardinality(InStatus(m, "rejected"))

\* C32: the approval notification of a submission approved for a member
\* carries as totalSaved the totalSavings the approval's write stored for that
\* member.
C32_NotificationCarriesStoredTotal ==
    (last.op = "approve" /\ last.res = "ok" /\ last.memberId # NoMember)
        => last.totalSaved = last.stored

\* C33: a verifyOTP call that reads a code past its expiry time returns false,
\* whatever code it was given, and leaves no record for the phone (so that no
\* later call can succeed before a new code is issued).
C33_ExpiredFailsAndIsDeleted ==
    (last.op = "verifyOTP" /\ last.expired)
        => last.res = "false" /\ ~otpCodes[last.key].exists

\* one phone number as members type it
TypedPhones ==
    OtpPhones \cup
    {<<"+", "2", "7", "7", "1", "1", "2", "3", "4", "5", "6", "7">>,
     <<"2", "7", "7", "1", "1", "2", "3", "4", "5", "6", "7">>,
     <<"7", "1", "1", "2", "3", "4", "5", "6", "7">>,
     <<"0", "7", "1", "-", "1", "2", "3", "-", "4", "5", "6", "7">>}

C35_AtMostThreeWrongCompared ==
    \A key \in OtpKeys : otpHistory[key].compared <= MaxAttempts

\* C36: every call of Database.updatePassword made by the forgot-password flow
\* is for a member whose phone SMS.verifyOTP has returned true for in that flow.
C36_PasswordOnlyAfterVerification ==
    \A u \in flow.updatePassword : u.verified

\* age of a stored session
Age(s) == session.now - s.timestamp

\* a step that is a login of that kind
Login(kind) ==
    session'.returned.call = IF kind = "member" THEN "setMemberSession"
                                                ELSE "setAdminSession"

\* an expired session in storage stays expired until a login replaces it
StaysExpired(kind, duration) ==
    LET s == session.storage[kind]
        s2 == session'.storage[kind]
    IN (s.present /\ Age(s) > duration /\ ~Login(kind))
          => (~s2.present \/ s2.timestamp = s.timestamp)

\* what a read of a session returned, against the clock and the storage
ReadsAreFresh ==
    /\ (session.returned.call = "getMemberSession" /\ session.returned.valid)
          => /\ session.now - session.returned.session.timestamp <= 30 * 60 * 1000
             /\ session.returned.session = session.storage.member
    /\ (session.returned.call = "extendMemberSession" /\ session.returned.valid)
          => /\ session.now - session.returned.session.timestamp <= 30 * 60 * 1000
             /\ session.storage.member.present
    /\ (session.returned.call \in {"getAdminSession", "checkAdminSession"}
          /\ session.returned.valid)
          => Age(session.storage.admin) <= 24 * 60 * 60 * 1000
    /\ (session.returned.call = "getAdminSession" /\ session.returned.valid)
          => session.returned.session = session.storage.admin
    /\ (session.returned.call \in {"getMemberSession", "extendMemberSession"}
          /\ session.returned.expired)
          => ~session.returned.valid /\ ~session.storage.member.present
    /\ (session.returned.call \in {"getAdminSession", "checkAdminSession"}
          /\ session.returned.expired)
          => ~session.returned.valid /\ ~session.storage.admin.present

\* C37: getMemberSession returns no session older than 30 minutes and
\* getAdminSession (checkAdminSession) none older than 24 hours; a read that
\* finds an expired session removes it from storage; extendMemberSession gives a
\* new timestamp only to a session that has not expired, so that an expired
\* session becomes valid again only by a new login.
C37_ExpiredSessionsStayExpired ==
    /\ []ReadsAreFresh
    /\ [][/\ StaysExpired("member", 30 * 60 * 1000)
          /\ StaysExpired("admin", 24 * 60 * 60 * 1000)]_vars

\* extendMemberSession was called on a session that had expired: nothing is
\* left in storage
C37_Witness ==
    /\ session.returned.call = "extendMemberSession"
    /\ session.returned.expired
    /\ ~session.storage.member.present

\* C38: whenever no operation is in progress, the cache's global counters
\* satisfy totalSubmissions = pendingSubmissions + approvedSubmissions +
\* rejectedSubmissions.
C38_SubmissionCountersAddUp ==
    Quiescent =>
        rtTotals.totalSubmissions =
            rtTotals.pendingSubmissions + rtTotals.approvedSubmissions
                + rtTotals.rejectedSubmissions

\* C39: uploadProof terminates, after at most 5 calls of compressImage, and what
\* it returns is at most 800KB long: otherwise it throws.
C39_UploadTerminatesWithinLimits ==
    /\ [](upload.compressions <= 5)
    /\ [](upload.outcome.kind = "returned" => upload.outcome.length <= 800 * 1024)
    /\ [](upload.at = "idle" /\ upload.file # NoFile
              => upload.outcome.kind \in {"returned", "thrown"})
    /\ (upload.at # "idle") ~> (upload.at = "idle")

\* the fifth compression still gave an oversized image: the call has thrown
C39_Witness ==
    /\ upload.at = "idle"
    /\ upload.compressions = 5
    /\ upload.outcome.kind = "thrown"

====
